---- MODULE Spec2Model ----
(***************************************************************************)
(* State-machine model of CacheManager, the three-tier cache of            *)
(* "Ragnarok Online Agent/src/cache_manager.py":                           *)
(*   L1  memory_cache   an OrderedDict  identifier -> (value, expires_at)  *)
(*   L2  cache_entries  the SQLite table of cache.db                       *)
(*   L3  file_cache_dir the directory of <identifier>.cache / .meta files  *)
(* Every public method runs under self._lock, so each method is one        *)
(* atomic action.  Time is the integer clock `now`; every time.time()      *)
(* call made inside one method reads the same `now`.                       *)
(***************************************************************************)
EXTENDS Integers, Sequences, FiniteSets, TLC

(***************************************************************************)
(* Bounds of the model.                                                    *)
(***************************************************************************)
MaxTime == 1
MaxCalls == 3
MaxSweepCalls == 4
MaxLruCalls == 4
MaxInvalidateCalls == 4
MaxCodecCalls == 3
MaxSetCalls == 3
MaxStatsCalls == 4
MaxThreadCalls == 3
MaxFaultCalls == 3
MaxConfigCalls == 3
MaxCrashCalls == 3
MaxSweepFaultCalls == 3
MaxFairCalls == 3
MaxRestartCalls == 4
MaxOrphanCalls == 3
MaxMemoryEntries == 2

(***************************************************************************)
(* Python's None / Optional: None is the empty sequence, a present value x *)
(* is the one-element sequence <<x>>.                                      *)
(***************************************************************************)
None == <<>>
Some(x) == <<x>>

(***************************************************************************)
(* Values.  A cached value is known to the cache only through equality and *)
(* through the length of its pickle, so a value is a name plus that        *)
(* length.  The three lengths are one per tier set() routes to.            *)
(***************************************************************************)
Values ==
    { [name |-> "v1023", pickled |-> 1023],
      [name |-> "v1024", pickled |-> 1024],
      [name |-> "v1048576", pickled |-> 1048576] }

\* _estimate_size: len(pickle.dumps(value)).
_estimate_size(value) == value.pickled

\* The two routing thresholds of set().
L1Limit == 1024
L2Limit == 1024 * 1024

(***************************************************************************)
(* KeyCodec.  key_data is built exactly as _generate_key builds it; the    *)
(* SHA-256 digest is a table holding the real first 32 hex characters of   *)
(* sha256(key_data) for every key_data the model can form.                 *)
(***************************************************************************)
RECURSIVE join(_, _)
join(sep, args) ==
    IF Len(args) = 0 THEN ""
    ELSE IF Len(args) = 1 THEN args[1]
    ELSE args[1] \o sep \o join(sep, Tail(args))

\* Variant: the extra arguments are left out of the digest input.
key_data_without_args(namespace, key, args) == namespace \o ":" \o key

key_data(namespace, key, args) ==
    IF Len(args) > 0
    THEN namespace \o ":" \o key \o ":" \o join(":", args)
    ELSE namespace \o ":" \o key

sha256_hex32(data) ==
    CASE data = "a:k"     -> "8863ac8a2b483a7ffa109185b54edb8e"
      [] data = "ns:y"    -> "a3407ca0a1f7b5d81bea0b2722e5e079"
      [] data = "ns:"     -> "52070a38c07f9b10aab2591fc920708b"
      [] data = "a:"      -> "bfc622d4a6d410f26be3d72dd4f04e47"
      [] data = "a:y"     -> "f78c553e0e9f08a54ac520b456a50e6a"
      [] data = "ns:k"    -> "8f548ddc4b2550741af01184bbe68368"
      [] data = "a:b:c"   -> "b0ee04f880c4ff4261479e2e7822b741"
      [] data = "a:b"     -> "6783a31eabf68ccc0660f935c0826282"
      [] data = "a:b:1:2" -> "31eff7a4c9bd5aeacaf6bee1aad4f3d6"
      [] data = "a:b:2:1" -> "810718df2328499197c7904a7d3466ba"
      [] data = "database:q1" -> "44db5fe3c9fcb27fdc5948d411209b4b"

_generate_key(namespace, key, args) == sha256_hex32(key_data(namespace, key, args))

\* str.startswith
startswith(s, prefix) ==
    /\ Len(prefix) <= Len(s)
    /\ SubSeq(s, 1, Len(prefix)) = prefix

\* The threads that call the cache, and a thread that is in no call.
Threads == { "t1", "t2" }

Idle ==
    [ pc |-> "idle", op |-> "", namespace |-> "", key |-> <<>>, args |-> <<>>,
      value |-> <<>>, ttl |-> <<>>, cache_key |-> "", t |-> 0,
      local |-> <<>>, ret |-> <<>>, expect |-> <<>>, raised |-> FALSE ]

(***************************************************************************)
(* The callers' inputs: the (namespace, key, extraArgs) tuples used by     *)
(* get/set, and the namespaces passed to invalidate.  The identifier of    *)
(* ("ns", "y") begins with the letter a; that of ("a", "k") does not.      *)
(***************************************************************************)
Tuples ==
    { [namespace |-> "a",  key |-> "k", args |-> <<>>],
      [namespace |-> "ns", key |-> "y", args |-> <<>>] }

Namespaces == { t.namespace : t \in Tuples }

KeyOf(t) == _generate_key(t.namespace, t.key, t.args)

\* The configuration _load_cache_config returns when no config file exists.
config ==
    [ ttl_default |-> 3600, ttl_database |-> 1800, ttl_scripts |-> 7200,
      ttl_static |-> 86400, auto_cleanup |-> TRUE, compression |-> TRUE ]

\* dict.get(name, default)
dict_get(d, name, default) == IF name \in DOMAIN d THEN d[name] ELSE default

\* ro_agent_config.yml: whether the file exists, whether yaml.safe_load
\* parses it, and the document it yields: None for an empty file, else a
\* mapping from section names to sections (None for a section without value).
NoFile == [ exists |-> FALSE, parses |-> FALSE, document |-> None ]

ConfigFiles ==
    { NoFile,
      [ exists |-> TRUE, parses |-> FALSE, document |-> None ],
      [ exists |-> TRUE, parses |-> TRUE,  document |-> None ],
      [ exists |-> TRUE, parses |-> TRUE,
        document |-> Some([ logging |-> None ]) ],
      [ exists |-> TRUE, parses |-> TRUE,
        document |-> Some([ cache |-> None ]) ],
      [ exists |-> TRUE, parses |-> TRUE,
        document |-> Some([ cache |-> Some([ ttl_database |-> 900 ]) ]) ],
      [ exists |-> TRUE, parses |-> TRUE,
        document |-> Some([ cache |-> Some([ ttl_default |-> 60 ]) ]) ],
      [ exists |-> TRUE, parses |-> TRUE,
        document |-> Some([ cache |-> Some(config) ]) ] }

\* With a file that parses to a mapping: config.get('cache', defaults), the
\* section as it is written.  safe_load raising, or .get on the None of an
\* empty file, lands in the except clause and falls through to the defaults.
_load_cache_config(file) ==
    IF file.exists /\ file.parses /\ file.document # None
    THEN dict_get(file.document[1], "cache", Some(config))
    ELSE Some(config)

VARIABLES
    now,                 \* time.time()
    max_memory_entries,  \* self.max_memory_entries
    self_config,         \* self.config: a dict, or None
    memory_cache,        \* self.memory_cache, oldest position first
    cache_stats,         \* self.cache_stats: hits, misses, evictions
    cache_entries,       \* the rows of table cache_entries in cache.db
    file_cache_dir,      \* the files of self.file_cache_dir
    recency,             \* history: identifiers of memory_cache, least recently inserted-or-hit first
    calls,               \* history: number of public calls made
    last,                \* history: the last completed public call
    pre,                 \* history: the state that call started in
    _lock,               \* self._lock: the thread that holds the RLock, if any
    threads              \* per thread: the call it is in, its position and its locals

vars == << now, max_memory_entries, self_config, memory_cache, cache_stats, cache_entries,
           file_cache_dir, recency, calls, last, pre, _lock, threads >>


(***************************************************************************)
(* L1: the OrderedDict.  A sequence of entries in dictionary order: the    *)
(* first element is what next(iter(memory_cache)) returns.                 *)
(***************************************************************************)
in_memory(mem, key) == \E i \in DOMAIN mem : mem[i].key = key

entry_of(mem, key) == mem[CHOOSE i \in DOMAIN mem : mem[i].key = key]

\* del memory_cache[key] / memory_cache.pop(key, None)
del_key(mem, key) == SelectSeq(mem, LAMBDA e : e.key # key)

\* OrderedDict.move_to_end(key)
move_to_end(mem, key) == Append(del_key(mem, key), entry_of(mem, key))

\* memory_cache[key] = (value, expires_at): a key already present keeps its
\* position in the OrderedDict, a new key is appended.
assign(mem, key, value, expires_at) ==
    LET entry == [key |-> key, value |-> value, expires_at |-> expires_at]
    IN  IF in_memory(mem, key)
        THEN [i \in DOMAIN mem |-> IF mem[i].key = key THEN entry ELSE mem[i]]
        ELSE Append(mem, entry)

\* Variant: the loop drops entries without counting them.
RECURSIVE lru_eviction_uncounted(_, _)
lru_eviction_uncounted(mem, stats) ==
    IF Len(mem) > max_memory_entries /\ mem # <<>>
    THEN lru_eviction_uncounted(Tail(mem), stats)
    ELSE [mem |-> mem, stats |-> stats, raised |-> Len(mem) > max_memory_entries]

\* The while loop of _set_memory_cache: drop the first entry and count one
\* eviction until the dictionary fits.  With a negative capacity the
\* condition still holds on the empty dictionary, and next(iter(...))
\* raises StopIteration: `raised`.
RECURSIVE lru_eviction(_, _)
lru_eviction(mem, stats) ==
    IF Len(mem) > max_memory_entries /\ mem # <<>>
    THEN lru_eviction(Tail(mem), [stats EXCEPT !.evictions = @ + 1])
    ELSE [mem |-> mem, stats |-> stats, raised |-> Len(mem) > max_memory_entries]

\* Variant: the entry is stored and the eviction loop is missing.
_set_memory_cache_unbounded(mem, stats, key, value, expires_at) ==
    [mem |-> assign(mem, key, value, expires_at), stats |-> stats, raised |-> FALSE]

\* Variant: a capacity of zero skips L1 instead of storing and evicting.
_set_memory_cache_skip_disabled(mem, stats, key, value, expires_at) ==
    IF max_memory_entries = 0
    THEN [mem |-> mem, stats |-> stats, raised |-> FALSE]
    ELSE lru_eviction(assign(mem, key, value, expires_at), stats)

_set_memory_cache(mem, stats, key, value, expires_at) ==
    lru_eviction(assign(mem, key, value, expires_at), stats)

(***************************************************************************)
(* L2: table cache_entries, a set of rows.  Column created_at is written   *)
(* by every put with the same clock reading as last_accessed and is read   *)
(* by no statement, so the rows leave it out.                              *)
(***************************************************************************)
\* Variant: a plain INSERT into a table without the primary key.
_set_database_cache_append(rows, key, value, expires_at, category, size, t) ==
    rows \cup
    { [ key |-> key, value |-> value, expires_at |-> expires_at,
        access_count |-> 0, last_accessed |-> t, category |-> category,
        size |-> IF size # 0 THEN size ELSE _estimate_size(value) ] }

\* INSERT OR REPLACE INTO cache_entries ...: key is the PRIMARY KEY, so the
\* row of the same key is replaced; access_count takes its DEFAULT 0.
_set_database_cache(rows, key, value, expires_at, category, size, t) ==
    { r \in rows : r.key # key } \cup
    { [ key |-> key, value |-> value, expires_at |-> expires_at,
        access_count |-> 0, last_accessed |-> t, category |-> category,
        size |-> IF size # 0 THEN size ELSE _estimate_size(value) ] }

\* Variant: the SELECT alone, without the UPDATE of the access columns.
_get_from_database_readonly(rows, key, t) ==
    LET live == { r \in rows : r.key = key /\ r.expires_at > t }
    IN  IF live # {}
        THEN LET row == CHOOSE r \in live : TRUE
             IN  [ found |-> TRUE, value |-> row.value, expires_at |-> row.expires_at,
                   rows |-> rows ]
        ELSE [ found |-> FALSE, value |-> None, expires_at |-> 0, rows |-> rows ]

\* SELECT value, expires_at ... WHERE key = ? AND expires_at > ?, then the
\* UPDATE of access_count and last_accessed when a row was fetched.
_get_from_database(rows, key, t) ==
    LET live == { r \in rows : r.key = key /\ r.expires_at > t }
    IN  IF live # {}
        THEN LET row == CHOOSE r \in live : TRUE
             IN  [ found |-> TRUE, value |-> row.value, expires_at |-> row.expires_at,
                   rows |-> { IF r.key = key
                              THEN [r EXCEPT !.access_count = @ + 1, !.last_accessed = t]
                              ELSE r : r \in rows } ]
        ELSE [ found |-> FALSE, value |-> None, expires_at |-> 0, rows |-> rows ]

(***************************************************************************)
(* L3: the directory file_cache_dir, a set of files.  A file is its stem   *)
(* (the identifier), its suffix and its content.  Metadata keys            *)
(* created_at and size are written and never read, and are left out.       *)
(***************************************************************************)
exists(dir, stem, suffix) == \E f \in dir : f.stem = stem /\ f.suffix = suffix

read(dir, stem, suffix) == (CHOOSE f \in dir : f.stem = stem /\ f.suffix = suffix).content

\* Path.unlink(missing_ok=True)
unlink(dir, stem, suffix) == { f \in dir : ~(f.stem = stem /\ f.suffix = suffix) }

\* open(path, 'w') ... : create or truncate, then write.
write(dir, stem, suffix, content) ==
    unlink(dir, stem, suffix) \cup { [stem |-> stem, suffix |-> suffix, content |-> content] }

\* glob("*.meta")
glob_meta(dir) == { f \in dir : f.suffix = ".meta" }

\* self.config.get('compression', True)
compression == dict_get(self_config[1], "compression", TRUE)

\* Data file first (gzip when config['compression']), metadata file second.
file_data(value) == [pickle |-> value, gzip |-> compression, complete |-> TRUE]

\* The data file as gzip.open(cache_file, 'wb') / open(cache_file, 'wb')
\* leaves it when the process stops inside pickle.dump: truncated at open,
\* holding a prefix of the pickle.
partial_data(value) == [file_data(value) EXCEPT !.complete = FALSE]

file_metadata(expires_at, category) ==
    [expires_at |-> expires_at, category |-> category, compressed |-> compression]

_set_file_cache(dir, key, value, expires_at, category) ==
    write(write(dir, key, ".cache", file_data(value)),
          key, ".meta", file_metadata(expires_at, category))

\* Both files must exist; metadata decides expiry with time.time() > expires_at;
\* an expired pair is unlinked.
_get_from_file_cache(dir, key, t) ==
    IF ~exists(dir, key, ".cache") \/ ~exists(dir, key, ".meta")
    THEN [ found |-> FALSE, value |-> None, expires_at |-> 0, dir |-> dir ]
    ELSE LET metadata == read(dir, key, ".meta")
             data == read(dir, key, ".cache")
         IN  IF t > metadata.expires_at
             THEN [ found |-> FALSE, value |-> None, expires_at |-> 0,
                    dir |-> unlink(unlink(dir, key, ".cache"), key, ".meta") ]
             ELSE IF metadata.compressed = data.gzip /\ data.complete
             THEN [ found |-> TRUE, value |-> data.pickle,
                    expires_at |-> metadata.expires_at, dir |-> dir ]
             \* gzip.open of a plain file, pickle.load of a gzip stream or of a
             \* truncated pickle raises: the except clause returns None.
             ELSE [ found |-> FALSE, value |-> None, expires_at |-> 0, dir |-> dir ]

(***************************************************************************)
(* History kept for the properties: `last` records the last completed      *)
(* public call (arguments, return value, clock reading, and how many       *)
(* identifiers it removed from a tier), `pre` the state that call started  *)
(* in, `calls` how many calls were made, and `recency` orders the          *)
(* identifiers now in memory_cache by their last insertion or hit.  No     *)
(* action reads them to decide what the cache does.                        *)
(***************************************************************************)
memory_keys(mem) == { mem[i].key : i \in DOMAIN mem }

row_keys(rows) == { r.key : r \in rows }

meta_stems(dir) == { f.stem : f \in { g \in dir : g.suffix = ".meta" } }

call(op, namespace, key, args, value, ttl, ret) ==
    [ op |-> op, namespace |-> namespace, key |-> key, args |-> args,
      value |-> value, ttl |-> ttl, ret |-> ret, t |-> now, removed |-> 0,
      fault |-> "none", raised |-> FALSE, unreadable |-> {} ]

snapshot ==
    [ memory_cache |-> memory_cache, cache_stats |-> cache_stats,
      cache_entries |-> cache_entries, file_cache_dir |-> file_cache_dir,
      recency |-> recency, last |-> last ]

\* What every public call does to the history, `made` being its record.
history(made) ==
    /\ calls' = calls + 1
    /\ last' = [made EXCEPT !.removed =
                    Cardinality(memory_keys(memory_cache) \ memory_keys(memory_cache'))
                  + Cardinality(row_keys(cache_entries) \ row_keys(cache_entries'))
                  + Cardinality(meta_stems(file_cache_dir) \ meta_stems(file_cache_dir'))]
    /\ pre' = snapshot

recency_after(rec, touched, key, mem) ==
    LET used == IF touched
                THEN Append(SelectSeq(rec, LAMBDA k : k # key), key)
                ELSE rec
    IN  SelectSeq(used, LAMBDA k : in_memory(mem, k))

(***************************************************************************)
(* get(namespace, key, *args): L1, then L2, then L3.                       *)
(***************************************************************************)
\* Variant: the promoted copy gets a fresh expiry, as a new set would give it.
l2_promotion_expiry_recomputed(db_value) == now + self_config[1].ttl_default

\* Line 135: the expiry a promoted L2 hit is stored with in L1.
l2_promotion_expiry(db_value) == db_value.expires_at

\* Line 145: the expiry a promoted L3 hit is stored with in L1 and L2.
l3_promotion_expiry(file_value) == file_value.expires_at

\* Variant: an L1 entry is still served at the instant it expires.
l1_live_at_boundary(mem, key, t) ==
    in_memory(mem, key) /\ t <= entry_of(mem, key).expires_at

\* Line 121: an L1 entry is live while time.time() < expires_at.
l1_live(mem, key, t) == in_memory(mem, key) /\ t < entry_of(mem, key).expires_at

\* Variant: a get that finds nothing leaves the counters alone.
count_miss_dropped(stats) == stats

\* self.cache_stats['misses'] += 1
count_miss(stats) == [stats EXCEPT !.misses = @ + 1]

\* self.cache_stats['hits'] += 1
count_hit(stats) == [stats EXCEPT !.hits = @ + 1]

\* The body of get.  `fault` names the storage step that raises during the
\* call, if any: "database_read" (the SELECT of _get_from_database; its
\* except clause returns None), "file_read" (opening or decoding the files
\* in _get_from_file_cache; its except clause returns None) or
\* "database_write" (the INSERT of the promotion; the except clause of
\* _set_database_cache prints and returns).
get_with(namespace, key, args, fault) ==
    LET cache_key == _generate_key(namespace, key, args)
    IN  IF l1_live(memory_cache, cache_key, now)
        THEN [ ret |-> Some(entry_of(memory_cache, cache_key).value),
               mem |-> move_to_end(memory_cache, cache_key),
               stats |-> count_hit(cache_stats),
               rows |-> cache_entries, dir |-> file_cache_dir, raised |-> FALSE ]
        ELSE
        LET \* an expired L1 entry is deleted; an absent one leaves L1 as it is
            mem1 == del_key(memory_cache, cache_key)
            db_value == IF fault = "database_read"
                        THEN [ found |-> FALSE, value |-> None, expires_at |-> 0,
                               rows |-> cache_entries ]
                        ELSE _get_from_database(cache_entries, cache_key, now)
        IN  IF db_value.found
            THEN LET l1 == _set_memory_cache(mem1, cache_stats, cache_key,
                                             db_value.value, l2_promotion_expiry(db_value))
                 IN  IF l1.raised
                     \* the exception leaves get before the hit is counted
                     THEN [ ret |-> None, mem |-> l1.mem, stats |-> l1.stats,
                            rows |-> db_value.rows, dir |-> file_cache_dir,
                            raised |-> TRUE ]
                     ELSE [ ret |-> Some(db_value.value), mem |-> l1.mem,
                            stats |-> count_hit(l1.stats),
                            rows |-> db_value.rows, dir |-> file_cache_dir,
                            raised |-> FALSE ]
            ELSE
            LET file_value == IF fault = "file_read"
                              THEN [ found |-> FALSE, value |-> None, expires_at |-> 0,
                                     dir |-> file_cache_dir ]
                              ELSE _get_from_file_cache(file_cache_dir, cache_key, now)
            IN  IF file_value.found
                THEN LET expires_at == l3_promotion_expiry(file_value)
                         l1 == _set_memory_cache(mem1, cache_stats, cache_key,
                                                 file_value.value, expires_at)
                     IN  IF l1.raised
                         \* and before the row of the promotion is written
                         THEN [ ret |-> None, mem |-> l1.mem, stats |-> l1.stats,
                                rows |-> db_value.rows, dir |-> file_value.dir,
                                raised |-> TRUE ]
                         ELSE
                         [ ret |-> Some(file_value.value), mem |-> l1.mem,
                           stats |-> count_hit(l1.stats),
                           rows |-> IF fault = "database_write" THEN db_value.rows
                                    ELSE _set_database_cache(db_value.rows, cache_key,
                                        file_value.value, expires_at, namespace, 0, now),
                           dir |-> file_value.dir, raised |-> FALSE ]
                ELSE [ ret |-> None, mem |-> mem1,
                       stats |-> count_miss(cache_stats),
                       rows |-> db_value.rows, dir |-> file_value.dir,
                       raised |-> FALSE ]

get_call(namespace, key, args) == get_with(namespace, key, args, "none")

get(namespace, key, args) ==
    LET r == get_call(namespace, key, args)
    IN  /\ memory_cache' = r.mem
        /\ cache_stats' = r.stats
        /\ cache_entries' = r.rows
        /\ file_cache_dir' = r.dir
        /\ recency' = recency_after(recency, r.ret # None,
                                    _generate_key(namespace, key, args), r.mem)
        /\ history([call("get", namespace, Some(key), args, None, None, r.ret)
                       EXCEPT !.raised = r.raised])
        /\ UNCHANGED << now, max_memory_entries, self_config, _lock, threads >>

(***************************************************************************)
(* set(namespace, key, value, ttl=None, *args)                             *)
(***************************************************************************)
\* self.config.get(f'ttl_{namespace}', self.config['ttl_default'])
config_ttl(namespace) ==
    dict_get(self_config[1], "ttl_" \o namespace, self_config[1].ttl_default)

\* The lookup raises: AttributeError on a None config, KeyError when the
\* section has no ttl_default (the default argument is evaluated first).
config_ttl_raises ==
    self_config = None \/ "ttl_default" \notin DOMAIN self_config[1]

\* Variant: `ttl or default`, which takes a ttl of 0 for a missing one.
resolve_ttl_falsy(namespace, ttl) ==
    IF ttl = None \/ ttl[1] = 0 THEN config_ttl(namespace) ELSE ttl[1]

resolve_ttl(namespace, ttl) == IF ttl = None THEN config_ttl(namespace) ELSE ttl[1]

\* Variant: both thresholds are closed, so 1024 stays in L1 and 1048576 in L2.
tier_of_closed(value_size) ==
    IF value_size <= L1Limit THEN "L1"
    ELSE IF value_size <= L2Limit THEN "L2"
    ELSE "L3"

\* The tier the size of a value routes it to.
tier_of(value_size) ==
    IF value_size < L1Limit THEN "L1"
    ELSE IF value_size < L2Limit THEN "L2"
    ELSE "L3"

\* Variant: every set also writes the value to L1, whatever its size.
set_call_write_through(namespace, key, value, ttl, args) ==
    LET cache_key == _generate_key(namespace, key, args)
        expires_at == now + resolve_ttl(namespace, ttl)
        value_size == _estimate_size(value)
        l1 == _set_memory_cache(memory_cache, cache_stats, cache_key, value, expires_at)
    IN  [ mem |-> l1.mem, stats |-> l1.stats, raised |-> l1.raised,
          rows |-> IF tier_of(value_size) = "L2"
                   THEN _set_database_cache(cache_entries, cache_key, value,
                                            expires_at, namespace, value_size, now)
                   ELSE cache_entries,
          dir |-> IF tier_of(value_size) = "L3"
                  THEN _set_file_cache(file_cache_dir, cache_key, value, expires_at, namespace)
                  ELSE file_cache_dir ]

\* The body of set.  `fault` names the storage step that raises, if any:
\* "database_write" (pickling or the INSERT in _set_database_cache),
\* "file_data" (opening the data file in _set_file_cache) or "file_meta"
\* (writing the metadata file, the data file being written).  Both
\* methods catch the exception, print it and return.
set_with(namespace, key, value, ttl, args, fault) ==
    LET cache_key == _generate_key(namespace, key, args)
        expires_at == now + resolve_ttl(namespace, ttl)
        value_size == _estimate_size(value)
        same == [ mem |-> memory_cache, stats |-> cache_stats,
                  rows |-> cache_entries, dir |-> file_cache_dir, raised |-> FALSE ]
    IN  CASE tier_of(value_size) = "L1" ->
               LET l1 == _set_memory_cache(memory_cache, cache_stats, cache_key,
                                           value, expires_at)
               IN  [same EXCEPT !.mem = l1.mem, !.stats = l1.stats, !.raised = l1.raised]
          [] tier_of(value_size) = "L2" ->
               IF fault = "database_write" THEN same
               ELSE [same EXCEPT !.rows = _set_database_cache(cache_entries, cache_key,
                                     value, expires_at, namespace, value_size, now)]
          [] tier_of(value_size) = "L3" ->
               \* self.config.get on a None config raises inside the try
               IF fault = "file_data" \/ self_config = None THEN same
               ELSE IF fault = "file_meta"
               THEN [same EXCEPT !.dir = write(file_cache_dir, cache_key, ".cache",
                                               file_data(value))]
               ELSE [same EXCEPT !.dir = _set_file_cache(file_cache_dir, cache_key, value,
                                             expires_at, namespace)]

set_call(namespace, key, value, ttl, args) == set_with(namespace, key, value, ttl, args, "none")

set(namespace, key, value, ttl, args) ==
    IF ttl = None /\ config_ttl_raises
    THEN \* line 159 raises before the lock is taken
         /\ UNCHANGED << now, max_memory_entries, self_config, memory_cache, cache_stats,
                         cache_entries, file_cache_dir, recency, _lock, threads >>
         /\ history([call("set", namespace, Some(key), args, Some(value), ttl, None)
                        EXCEPT !.raised = TRUE])
    ELSE LET r == set_call(namespace, key, value, ttl, args)
         IN  /\ memory_cache' = r.mem
             /\ cache_stats' = r.stats
             /\ cache_entries' = r.rows
             /\ file_cache_dir' = r.dir
             /\ recency' = recency_after(recency, tier_of(_estimate_size(value)) = "L1",
                                         _generate_key(namespace, key, args), r.mem)
             /\ history([call("set", namespace, Some(key), args, Some(value), ttl, None)
                            EXCEPT !.raised = r.raised])
             /\ UNCHANGED << now, max_memory_entries, self_config, _lock, threads >>

(***************************************************************************)
(* invalidate(namespace, key=None, *args)                                  *)
(***************************************************************************)
\* Python truth of `key`: None and the empty string are both false.
truthy(key) == key # None /\ key[1] # ""

\* The files the L3 loops unlink for the metadata files in `metas`.
pairs_of(dir, metas) ==
    { f \in dir : f.suffix \in {".cache", ".meta"} /\ \E m \in metas : m.stem = f.stem }

\* Variant: one try around the whole loop, which an unreadable metadata
\* file met first ends before any file is removed.
invalidate_files_aborting(dir, namespace, unreadable) ==
    IF unreadable # {} THEN dir
    ELSE dir \ pairs_of(dir, { m \in glob_meta(dir) : m.content.category = namespace })

\* The L3 loop of _invalidate_namespace: every metadata file whose category
\* is the namespace, with its data file.  For a metadata file in
\* `unreadable` open or json.load raises; the except clause inside the
\* loop body prints and the loop goes on with the next file.
invalidate_files(dir, namespace, unreadable) ==
    dir \ pairs_of(dir, { m \in glob_meta(dir) :
                            m.stem \notin unreadable /\ m.content.category = namespace })

_invalidate_namespace(mem, rows, dir, namespace) ==
    [ \* L1: every identifier for which key.startswith(namespace)
      mem |-> SelectSeq(mem, LAMBDA e : ~startswith(e.key, namespace)),
      \* L2: DELETE FROM cache_entries WHERE category = ?
      rows |-> { r \in rows : r.category # namespace },
      \* L3
      dir |-> invalidate_files(dir, namespace, {}) ]

invalidate_call(namespace, key, args) ==
    IF truthy(key)
    THEN LET cache_key == _generate_key(namespace, key[1], args)
         IN  [ mem |-> del_key(memory_cache, cache_key),
               rows |-> { r \in cache_entries : r.key # cache_key },
               dir |-> unlink(unlink(file_cache_dir, cache_key, ".cache"), cache_key, ".meta") ]
    ELSE _invalidate_namespace(memory_cache, cache_entries, file_cache_dir, namespace)

\* The body of invalidate when a storage step raises: "database_delete"
\* (the DELETE; caught and printed in both branches), "unlink" (the data
\* file cannot be deleted, and the metadata file is not tried) or
\* "unlink_meta" (the data file is deleted, the metadata file cannot be).
\* Lines 316-317 stand outside any try, so with a key the exception of
\* unlink leaves the method after L1 and L2 are done; in
\* _invalidate_namespace it is caught per metadata file.
invalidate_with(namespace, key, args, fault) ==
    LET r == invalidate_call(namespace, key, args)
    IN  [ mem |-> r.mem,
          rows |-> IF fault = "database_delete" THEN cache_entries ELSE r.rows,
          dir |-> CASE fault = "unlink" -> file_cache_dir
                    [] fault = "unlink_meta" ->
                         { f \in file_cache_dir : f \in r.dir \/ f.suffix = ".meta" }
                    [] OTHER -> r.dir,
          raised |-> fault \in {"unlink", "unlink_meta"} /\ truthy(key) ]

invalidate(namespace, key, args) ==
    LET r == invalidate_call(namespace, key, args)
    IN  /\ memory_cache' = r.mem
        /\ cache_entries' = r.rows
        /\ file_cache_dir' = r.dir
        /\ recency' = recency_after(recency, FALSE, "", r.mem)
        /\ history(call("invalidate", namespace, key, args, None, None, None))
        /\ UNCHANGED << now, max_memory_entries, self_config, cache_stats, _lock, threads >>

(***************************************************************************)
(* cleanup_expired()                                                       *)
(***************************************************************************)
\* Variant: the loop that collects the expired keys stops at the first one.
cleanup_memory_first_only(mem, current_time) ==
    LET expired == { i \in DOMAIN mem : current_time > mem[i].expires_at }
    IN  IF expired = {} THEN mem
        ELSE LET first == CHOOSE i \in expired : \A j \in expired : i <= j
             IN  SubSeq(mem, 1, first - 1) \o SubSeq(mem, first + 1, Len(mem))

\* Variant: the entry whose expiry equals the clock is deleted as well.
cleanup_memory_at_boundary(mem, current_time) ==
    SelectSeq(mem, LAMBDA e : ~(current_time >= e.expires_at))

\* L1: the keys with current_time > expires_at are deleted.
cleanup_memory(mem, current_time) ==
    SelectSeq(mem, LAMBDA e : ~(current_time > e.expires_at))

\* L2: DELETE FROM cache_entries WHERE expires_at < ?
cleanup_database(rows, current_time) ==
    { r \in rows : ~(r.expires_at < current_time) }

\* Variant: one try around the whole loop, which an unreadable metadata
\* file met first ends before any file is removed.
cleanup_files_aborting(dir, current_time, unreadable) ==
    IF unreadable # {} THEN dir
    ELSE dir \ pairs_of(dir, { m \in glob_meta(dir) : current_time > m.content.expires_at })

\* The L3 loop of cleanup_expired: every metadata file with
\* current_time > expires_at, with its data file.  A metadata file in
\* `unreadable` raises inside the try of the loop body and is skipped.
cleanup_files_skipping(dir, current_time, unreadable) ==
    dir \ pairs_of(dir, { m \in glob_meta(dir) :
                            m.stem \notin unreadable /\ current_time > m.content.expires_at })

cleanup_files(dir, current_time) == cleanup_files_skipping(dir, current_time, {})

cleanup_expired ==
    LET mem == cleanup_memory(memory_cache, now)
        rows == cleanup_database(cache_entries, now)
        dir == cleanup_files(file_cache_dir, now)
    IN  /\ memory_cache' = mem
        /\ cache_entries' = rows
        /\ file_cache_dir' = dir
        /\ recency' = recency_after(recency, FALSE, "", mem)
        /\ history(call("cleanup_expired", "", None, <<>>, None, None, None))
        /\ UNCHANGED << now, max_memory_entries, self_config, cache_stats, _lock, threads >>

\* cleanup_expired with metadata files that cannot be read or parsed.
cleanup_expired_failing(unreadable) ==
    LET mem == cleanup_memory(memory_cache, now)
        rows == cleanup_database(cache_entries, now)
        dir == cleanup_files_skipping(file_cache_dir, now, unreadable)
    IN  /\ unreadable # {}
        /\ unreadable \subseteq meta_stems(file_cache_dir)
        /\ memory_cache' = mem
        /\ cache_entries' = rows
        /\ file_cache_dir' = dir
        /\ recency' = recency_after(recency, FALSE, "", mem)
        /\ UNCHANGED << now, max_memory_entries, self_config, cache_stats, _lock, threads >>
        /\ history([call("cleanup_expired", "", None, <<>>, None, None, None)
                       EXCEPT !.fault = "meta_read", !.unreadable = unreadable])

\* invalidate(namespace) with metadata files that cannot be read or parsed.
invalidate_namespace_failing(namespace, unreadable) ==
    LET r == _invalidate_namespace(memory_cache, cache_entries, file_cache_dir, namespace)
    IN  /\ unreadable # {}
        /\ unreadable \subseteq meta_stems(file_cache_dir)
        /\ memory_cache' = r.mem
        /\ cache_entries' = r.rows
        /\ file_cache_dir' = invalidate_files(file_cache_dir, namespace, unreadable)
        /\ recency' = recency_after(recency, FALSE, "", r.mem)
        /\ UNCHANGED << now, max_memory_entries, self_config, cache_stats, _lock, threads >>
        /\ history([call("invalidate", namespace, None, <<>>, None, None, None)
                       EXCEPT !.fault = "meta_read", !.unreadable = unreadable])

(***************************************************************************)
(* The three methods with a storage step that raises.  A call is taken     *)
(* only when it reaches the step named by `fault`.                         *)
(***************************************************************************)
GetFaults == { "database_read", "file_read", "database_write" }

SetFaults == { "database_write", "file_data", "file_meta" }

InvalidateFaults == { "database_delete", "unlink", "unlink_meta" }

\* The get reaches the step: L2 is read when L1 has no live entry, L3 when
\* L2 has no live row either, and the promotion writes L2 on an L3 hit.
get_reaches(namespace, key, args, fault) ==
    LET cache_key == _generate_key(namespace, key, args)
        l2_read == ~l1_live(memory_cache, cache_key, now)
        l3_read == l2_read /\ ~_get_from_database(cache_entries, cache_key, now).found
    IN  CASE fault = "database_read"  -> l2_read
          [] fault = "file_read"      ->
                 l2_read /\ exists(file_cache_dir, cache_key, ".cache")
                         /\ exists(file_cache_dir, cache_key, ".meta")
          [] fault = "database_write" ->
                 l3_read /\ _get_from_file_cache(file_cache_dir, cache_key, now).found

get_failing(namespace, key, args, fault) ==
    LET r == get_with(namespace, key, args, fault)
    IN  /\ get_reaches(namespace, key, args, fault)
        /\ memory_cache' = r.mem
        /\ cache_stats' = r.stats
        /\ cache_entries' = r.rows
        /\ file_cache_dir' = r.dir
        /\ recency' = recency_after(recency, r.ret # None,
                                    _generate_key(namespace, key, args), r.mem)
        /\ history([call("get", namespace, Some(key), args, None, None, r.ret)
                       EXCEPT !.fault = fault, !.raised = r.raised])
        /\ UNCHANGED << now, max_memory_entries, self_config, _lock, threads >>

set_failing(namespace, key, value, ttl, args, fault) ==
    LET r == set_with(namespace, key, value, ttl, args, fault)
    IN  /\ tier_of(_estimate_size(value)) = (IF fault = "database_write" THEN "L2" ELSE "L3")
        /\ memory_cache' = r.mem
        /\ cache_stats' = r.stats
        /\ cache_entries' = r.rows
        /\ file_cache_dir' = r.dir
        /\ recency' = recency_after(recency, FALSE, "", r.mem)
        /\ history([call("set", namespace, Some(key), args, Some(value), ttl, None)
                       EXCEPT !.fault = fault])
        /\ UNCHANGED << now, max_memory_entries, self_config, _lock, threads >>

\* The invalidate reaches the step: the DELETE always runs; unlink can only
\* raise on a file that is there.
invalidate_reaches(namespace, key, args, fault) ==
    LET unlinked == file_cache_dir \ invalidate_call(namespace, key, args).dir
    IN  /\ fault = "unlink" => \E f \in unlinked : f.suffix = ".cache"
        /\ fault = "unlink_meta" => \E f \in unlinked : f.suffix = ".meta"

invalidate_failing(namespace, key, args, fault) ==
    LET r == invalidate_with(namespace, key, args, fault)
    IN  /\ invalidate_reaches(namespace, key, args, fault)
        /\ memory_cache' = r.mem
        /\ cache_entries' = r.rows
        /\ file_cache_dir' = r.dir
        /\ recency' = recency_after(recency, FALSE, "", r.mem)
        /\ history([call("invalidate", namespace, key, args, None, None, None)
                       EXCEPT !.fault = fault, !.raised = r.raised])
        /\ UNCHANGED << now, max_memory_entries, self_config, cache_stats, _lock, threads >>

(***************************************************************************)
(* get_stats(): a copy of the counters with the derived figures.  The      *)
(* quotient hits / total_requests is kept as the pair (num, den); the      *)
(* integer 0 of the else branch is the pair (0, 1).  file_size, the summed *)
(* st_size of the gzip files, is not reported by the model.                *)
(***************************************************************************)
\* Variant: the quotient is formed without the total_requests > 0 test.
hit_ratio_unguarded(stats) ==
    [num |-> stats.hits, den |-> stats.hits + stats.misses]

hit_ratio(stats) ==
    LET total_requests == stats.hits + stats.misses
    IN  IF total_requests > 0
        THEN [num |-> stats.hits, den |-> total_requests]
        ELSE [num |-> 0, den |-> 1]

\* SELECT SUM(size) FROM cache_entries, with `or 0` for the NULL of an empty table.
RECURSIVE sum_size(_)
sum_size(rows) ==
    IF rows = {} THEN 0
    ELSE LET r == CHOOSE q \in rows : TRUE
         IN  r.size + sum_size(rows \ {r})

\* Variant: COUNT(*) and SUM(size) taken over the unexpired rows only.
get_stats_call_live_rows ==
    LET live == { r \in cache_entries : r.expires_at > now }
    IN  [ hits |-> cache_stats.hits, misses |-> cache_stats.misses,
          evictions |-> cache_stats.evictions,
          hit_ratio |-> hit_ratio(cache_stats),
          memory_entries |-> Len(memory_cache),
          database_entries |-> Cardinality(live),
          database_size |-> sum_size(live),
          file_entries |-> Cardinality({ f \in file_cache_dir : f.suffix = ".cache" }) ]

get_stats_call ==
    [ hits |-> cache_stats.hits, misses |-> cache_stats.misses,
      evictions |-> cache_stats.evictions,
      hit_ratio |-> hit_ratio(cache_stats),
      memory_entries |-> Len(memory_cache),
      database_entries |-> Cardinality(cache_entries),
      database_size |-> sum_size(cache_entries),
      file_entries |-> Cardinality({ f \in file_cache_dir : f.suffix = ".cache" }) ]

get_stats ==
    /\ UNCHANGED << now, max_memory_entries, self_config, memory_cache, cache_stats,
                    cache_entries, file_cache_dir, recency, _lock, threads >>
    /\ history(call("get_stats", "", None, <<>>, None, None, Some(get_stats_call)))

(***************************************************************************)
(* _generate_key(namespace, key, *args) called on its own: it reads and    *)
(* writes no field; the call and the identifier it returns are recorded.   *)
(***************************************************************************)
generate_key(namespace, key, args) ==
    /\ UNCHANGED << now, max_memory_entries, self_config, memory_cache, cache_stats,
                    cache_entries, file_cache_dir, recency, _lock, threads >>
    /\ history(call("_generate_key", namespace, Some(key), args, None, None,
                    Some(_generate_key(namespace, key, args))))

(***************************************************************************)
(* The same five methods, called by several threads and taken one tier     *)
(* access at a time.  A thread computes what the method computes before    *)
(* `with self._lock:` when it enters the call (begin), then waits for the  *)
(* lock (acquire), runs the body one step per tier access, and leaves the  *)
(* with block (release).  On acquiring the lock the thread notes in        *)
(* `expect` what the whole method, run in one piece on the state it found, *)
(* would leave and return; no step reads that note.                        *)
(***************************************************************************)
\* Variant: no mutual exclusion, the with block is entered at once.
lock_always_free(th) == TRUE

\* threading.RLock: free, or already held by the calling thread.
lock_free(th) == _lock = None \/ _lock = Some(th)

first_step(op) ==
    CASE op = "get"             -> "get_l1"
      [] op = "set"             -> "set_write"
      [] op = "invalidate"      -> "invalidate_l1"
      [] op = "cleanup_expired" -> "cleanup_l1"
      [] op = "get_stats"       -> "stats_counters"

\* The method of thread record w, run in one piece on the current state.
whole_call(w) ==
    LET same == [ mem |-> memory_cache, stats |-> cache_stats, rows |-> cache_entries,
                  dir |-> file_cache_dir, ret |-> None ]
    IN  CASE w.op = "get" ->
               LET r == get_call(w.namespace, w.key[1], w.args)
               IN  [ mem |-> r.mem, stats |-> r.stats, rows |-> r.rows,
                     dir |-> r.dir, ret |-> r.ret ]
          [] w.op = "set" ->
               LET r == set_call(w.namespace, w.key[1], w.value[1], w.ttl, w.args)
               IN  [same EXCEPT !.mem = r.mem, !.stats = r.stats,
                                !.rows = r.rows, !.dir = r.dir]
          [] w.op = "invalidate" ->
               LET r == invalidate_call(w.namespace, w.key, w.args)
               IN  [same EXCEPT !.mem = r.mem, !.rows = r.rows, !.dir = r.dir]
          [] w.op = "cleanup_expired" ->
               [same EXCEPT !.mem = cleanup_memory(memory_cache, w.t),
                            !.rows = cleanup_database(cache_entries, w.t),
                            !.dir = cleanup_files(file_cache_dir, w.t)]
          [] w.op = "get_stats" ->
               [same EXCEPT !.ret = Some(get_stats_call)]

\* What no step of a thread changes.
thread_frame == UNCHANGED << now, max_memory_entries, self_config, recency, last, pre >>

\* Entering a method: the arguments, and for get/set the identifier, for
\* set/cleanup_expired the clock reading taken before the with block.
begin(th, op, namespace, key, args, value, ttl) ==
    /\ threads[th].pc \in {"idle", "done"}
    /\ threads' = [threads EXCEPT ![th] =
          [Idle EXCEPT !.pc = "acquire", !.op = op, !.namespace = namespace,
                       !.key = key, !.args = args, !.value = value, !.ttl = ttl,
                       !.cache_key = IF op \in {"get", "set"}
                                     THEN _generate_key(namespace, key[1], args) ELSE "",
                       !.t = now]]
    /\ calls' = calls + 1
    /\ thread_frame
    /\ UNCHANGED << memory_cache, cache_stats, cache_entries, file_cache_dir, _lock >>

\* with self._lock:
acquire(th) ==
    /\ threads[th].pc = "acquire"
    /\ lock_free(th)
    /\ _lock' = Some(th)
    /\ threads' = [threads EXCEPT ![th] =
          [@ EXCEPT !.pc = first_step(threads[th].op),
                    !.expect = Some(whole_call(threads[th]))]]
    /\ thread_frame
    /\ UNCHANGED << memory_cache, cache_stats, cache_entries, file_cache_dir, calls >>

\* Variant: acquire() and release() written out with no try/finally, so a
\* body that raises leaves the lock with its thread.
release_unless_raised(th) ==
    /\ threads[th].pc = "release"
    /\ _lock' = IF threads[th].raised THEN _lock ELSE None
    /\ threads' = [threads EXCEPT ![th] = [@ EXCEPT !.pc = "done"]]
    /\ thread_frame
    /\ UNCHANGED << memory_cache, cache_stats, cache_entries, file_cache_dir, calls >>

\* Leaving the with block, by return or by an exception passing through it.
release(th) ==
    /\ threads[th].pc = "release"
    /\ _lock' = None
    /\ threads' = [threads EXCEPT ![th] = [@ EXCEPT !.pc = "done"]]
    /\ thread_frame
    /\ UNCHANGED << memory_cache, cache_stats, cache_entries, file_cache_dir, calls >>

\* The thread moves to position pc.
goto(th, pc) == threads' = [threads EXCEPT ![th] = [@ EXCEPT !.pc = pc]]

\* The thread keeps a local and moves to position pc.
keep(th, local, pc) ==
    threads' = [threads EXCEPT ![th] = [@ EXCEPT !.pc = pc, !.local = Some(local)]]

\* The thread has its return value and reaches the end of the with block.
return(th, ret) ==
    threads' = [threads EXCEPT ![th] = [@ EXCEPT !.pc = "release", !.ret = ret]]

\* get, lines 119-129: the L1 lookup.
get_l1(th) ==
    LET w == threads[th]
    IN  /\ w.pc = "get_l1"
        /\ IF l1_live(memory_cache, w.cache_key, now)
           THEN /\ memory_cache' = move_to_end(memory_cache, w.cache_key)
                /\ cache_stats' = count_hit(cache_stats)
                /\ return(th, Some(entry_of(memory_cache, w.cache_key).value))
           ELSE /\ memory_cache' = del_key(memory_cache, w.cache_key)
                /\ goto(th, "get_l2")
                /\ UNCHANGED cache_stats
        /\ thread_frame
        /\ UNCHANGED << cache_entries, file_cache_dir, calls, _lock >>

\* get, line 132: the L2 lookup.
get_l2(th) ==
    LET w == threads[th]
        db_value == _get_from_database(cache_entries, w.cache_key, now)
    IN  /\ w.pc = "get_l2"
        /\ cache_entries' = db_value.rows
        /\ IF db_value.found
           THEN keep(th, [value |-> db_value.value, expires_at |-> db_value.expires_at],
                     "get_l2_promote")
           ELSE goto(th, "get_l3")
        /\ thread_frame
        /\ UNCHANGED << memory_cache, cache_stats, file_cache_dir, calls, _lock >>

\* get, lines 135-139: the L2 hit is promoted to L1.
get_l2_promote(th) ==
    LET w == threads[th]
        db_value == w.local[1]
        l1 == _set_memory_cache(memory_cache, cache_stats, w.cache_key,
                                db_value.value, l2_promotion_expiry(db_value))
    IN  /\ w.pc = "get_l2_promote"
        /\ memory_cache' = l1.mem
        /\ cache_stats' = count_hit(l1.stats)
        /\ return(th, Some(db_value.value))
        /\ thread_frame
        /\ UNCHANGED << cache_entries, file_cache_dir, calls, _lock >>

\* get, lines 142 and 152-154: the L3 lookup, and the miss.
get_l3(th) ==
    LET w == threads[th]
        file_value == _get_from_file_cache(file_cache_dir, w.cache_key, now)
    IN  /\ w.pc = "get_l3"
        /\ file_cache_dir' = file_value.dir
        /\ IF file_value.found
           THEN /\ keep(th, [value |-> file_value.value,
                             expires_at |-> file_value.expires_at], "get_l3_promote_l1")
                /\ UNCHANGED cache_stats
           ELSE /\ cache_stats' = count_miss(cache_stats)
                /\ return(th, None)
        /\ thread_frame
        /\ UNCHANGED << memory_cache, cache_entries, calls, _lock >>

\* get, lines 145-146: the L3 hit is promoted to L1.
get_l3_promote_l1(th) ==
    LET w == threads[th]
        file_value == w.local[1]
        l1 == _set_memory_cache(memory_cache, cache_stats, w.cache_key,
                                file_value.value, l3_promotion_expiry(file_value))
    IN  /\ w.pc = "get_l3_promote_l1"
        /\ memory_cache' = l1.mem
        /\ cache_stats' = l1.stats
        /\ goto(th, "get_l3_promote_l2")
        /\ thread_frame
        /\ UNCHANGED << cache_entries, file_cache_dir, calls, _lock >>

\* get, lines 147-150: the L3 hit is promoted to L2.
get_l3_promote_l2(th) ==
    LET w == threads[th]
        file_value == w.local[1]
    IN  /\ w.pc = "get_l3_promote_l2"
        /\ cache_entries' = _set_database_cache(cache_entries, w.cache_key, file_value.value,
                                l3_promotion_expiry(file_value), w.namespace, 0, now)
        /\ cache_stats' = count_hit(cache_stats)
        /\ return(th, Some(file_value.value))
        /\ thread_frame
        /\ UNCHANGED << memory_cache, file_cache_dir, calls, _lock >>

\* set, lines 166-178: the write to the tier of the value's size; of the two
\* files of L3 this step writes the data file.
set_write(th) ==
    LET w == threads[th]
        value == w.value[1]
        value_size == _estimate_size(value)
        expires_at == w.t + resolve_ttl(w.namespace, w.ttl)
        l1 == _set_memory_cache(memory_cache, cache_stats, w.cache_key, value, expires_at)
    IN  /\ w.pc = "set_write"
        /\ CASE tier_of(value_size) = "L1" ->
                  /\ memory_cache' = l1.mem
                  /\ cache_stats' = l1.stats
                  /\ return(th, None)
                  /\ UNCHANGED << cache_entries, file_cache_dir >>
             [] tier_of(value_size) = "L2" ->
                  /\ cache_entries' = _set_database_cache(cache_entries, w.cache_key, value,
                                          expires_at, w.namespace, value_size, now)
                  /\ return(th, None)
                  /\ UNCHANGED << memory_cache, cache_stats, file_cache_dir >>
             [] tier_of(value_size) = "L3" ->
                  /\ file_cache_dir' = write(file_cache_dir, w.cache_key, ".cache",
                                             file_data(value))
                  /\ goto(th, "set_meta")
                  /\ UNCHANGED << memory_cache, cache_stats, cache_entries >>
        /\ thread_frame
        /\ UNCHANGED << calls, _lock >>

\* _set_file_cache, lines 222-232: the metadata file.
set_meta(th) ==
    LET w == threads[th]
        expires_at == w.t + resolve_ttl(w.namespace, w.ttl)
    IN  /\ w.pc = "set_meta"
        /\ file_cache_dir' = write(file_cache_dir, w.cache_key, ".meta",
                                   file_metadata(expires_at, w.namespace))
        /\ return(th, None)
        /\ thread_frame
        /\ UNCHANGED << memory_cache, cache_stats, cache_entries, calls, _lock >>

\* invalidate, lines 304 / 326-332: the L1 part.
invalidate_l1(th) ==
    LET w == threads[th]
    IN  /\ w.pc = "invalidate_l1"
        /\ memory_cache' = invalidate_call(w.namespace, w.key, w.args).mem
        /\ goto(th, "invalidate_l2")
        /\ thread_frame
        /\ UNCHANGED << cache_stats, cache_entries, file_cache_dir, calls, _lock >>

\* invalidate, lines 307-311 / 335-339: the L2 part.
invalidate_l2(th) ==
    LET w == threads[th]
    IN  /\ w.pc = "invalidate_l2"
        /\ cache_entries' = invalidate_call(w.namespace, w.key, w.args).rows
        /\ goto(th, "invalidate_l3")
        /\ thread_frame
        /\ UNCHANGED << memory_cache, cache_stats, file_cache_dir, calls, _lock >>

\* invalidate, lines 314-317 / 342-354: the L3 part.
invalidate_l3(th) ==
    LET w == threads[th]
    IN  /\ w.pc = "invalidate_l3"
        /\ file_cache_dir' = invalidate_call(w.namespace, w.key, w.args).dir
        /\ return(th, None)
        /\ thread_frame
        /\ UNCHANGED << memory_cache, cache_stats, cache_entries, calls, _lock >>

\* invalidate, lines 314-317: unlink of the data file raises; nothing
\* catches it inside the method and the exception leaves the with block.
invalidate_l3_raising(th) ==
    LET w == threads[th]
    IN  /\ w.pc = "invalidate_l3"
        /\ w.key # None
        /\ exists(file_cache_dir, _generate_key(w.namespace, w.key[1], w.args), ".cache")
        /\ threads' = [threads EXCEPT ![th] = [@ EXCEPT !.pc = "release", !.raised = TRUE]]
        /\ thread_frame
        /\ UNCHANGED << memory_cache, cache_stats, cache_entries, file_cache_dir, calls, _lock >>

\* cleanup_expired, lines 361-368.
cleanup_l1(th) ==
    /\ threads[th].pc = "cleanup_l1"
    /\ memory_cache' = cleanup_memory(memory_cache, threads[th].t)
    /\ goto(th, "cleanup_l2")
    /\ thread_frame
    /\ UNCHANGED << cache_stats, cache_entries, file_cache_dir, calls, _lock >>

\* cleanup_expired, lines 370-375.
cleanup_l2(th) ==
    /\ threads[th].pc = "cleanup_l2"
    /\ cache_entries' = cleanup_database(cache_entries, threads[th].t)
    /\ goto(th, "cleanup_l3")
    /\ thread_frame
    /\ UNCHANGED << memory_cache, cache_stats, file_cache_dir, calls, _lock >>

\* cleanup_expired, lines 377-390.
cleanup_l3(th) ==
    /\ threads[th].pc = "cleanup_l3"
    /\ file_cache_dir' = cleanup_files(file_cache_dir, threads[th].t)
    /\ return(th, None)
    /\ thread_frame
    /\ UNCHANGED << memory_cache, cache_stats, cache_entries, calls, _lock >>

\* get_stats, lines 395-402: the counters, the ratio and the size of L1.
stats_counters(th) ==
    /\ threads[th].pc = "stats_counters"
    /\ keep(th, [ hits |-> cache_stats.hits, misses |-> cache_stats.misses,
                  evictions |-> cache_stats.evictions,
                  hit_ratio |-> hit_ratio(cache_stats),
                  memory_entries |-> Len(memory_cache),
                  database_entries |-> 0, database_size |-> 0, file_entries |-> 0 ],
            "stats_database")
    /\ thread_frame
    /\ UNCHANGED << memory_cache, cache_stats, cache_entries, file_cache_dir, calls, _lock >>

\* get_stats, lines 405-413.
stats_database(th) ==
    /\ threads[th].pc = "stats_database"
    /\ keep(th, [threads[th].local[1] EXCEPT
                    !.database_entries = Cardinality(cache_entries),
                    !.database_size = sum_size(cache_entries)],
            "stats_files")
    /\ thread_frame
    /\ UNCHANGED << memory_cache, cache_stats, cache_entries, file_cache_dir, calls, _lock >>

\* get_stats, lines 416-421.
stats_files(th) ==
    /\ threads[th].pc = "stats_files"
    /\ return(th, Some([threads[th].local[1] EXCEPT
                    !.file_entries =
                        Cardinality({ f \in file_cache_dir : f.suffix = ".cache" })]))
    /\ thread_frame
    /\ UNCHANGED << memory_cache, cache_stats, cache_entries, file_cache_dir, calls, _lock >>

(***************************************************************************)
(* The clock, the initial state and the specification.                     *)
(***************************************************************************)
\* The process stops inside _set_file_cache of a set of a large value, and
\* a new CacheManager is constructed over the same cache directory.  At
\* "data_open" the data file is open for writing (truncated, partly
\* written) and the metadata file is the one of the previous put, if any;
\* at "data_closed" the data file is complete and the metadata file is
\* still the previous one.
CrashPoints == { "data_open", "data_closed" }

set_crashing(namespace, key, value, ttl, args, point) ==
    LET cache_key == _generate_key(namespace, key, args)
    IN  /\ tier_of(_estimate_size(value)) = "L3"
        /\ self_config # None
        /\ file_cache_dir' = write(file_cache_dir, cache_key, ".cache",
                                   IF point = "data_open" THEN partial_data(value)
                                   ELSE file_data(value))
        /\ memory_cache' = <<>>
        /\ cache_stats' = [hits |-> 0, misses |-> 0, evictions |-> 0]
        /\ recency' = <<>>
        /\ UNCHANGED << now, max_memory_entries, self_config, cache_entries, _lock, threads >>
        /\ history([call("set", namespace, Some(key), args, Some(value), ttl, None)
                       EXCEPT !.fault = point])

\* A new CacheManager over the cache directory of the previous one, whose
\* parent holds the config file `file`: L1 and the counters start empty,
\* cache.db and the files directory are kept (CREATE TABLE IF NOT EXISTS,
\* mkdir(exist_ok=True)).
__init__(file) ==
    /\ memory_cache' = <<>>
    /\ cache_stats' = [hits |-> 0, misses |-> 0, evictions |-> 0]
    /\ self_config' = _load_cache_config(file)
    /\ recency' = <<>>
    /\ UNCHANGED << now, max_memory_entries, cache_entries, file_cache_dir, _lock, threads >>
    /\ history(call("__init__", "", None, <<>>, None, None, None))

Tick ==
    /\ now < MaxTime
    /\ now' = now + 1
    /\ UNCHANGED << max_memory_entries, self_config, memory_cache, cache_stats,
                    cache_entries, file_cache_dir, recency, calls, last, pre,
                    _lock, threads >>

\* __init__: empty L1, zeroed counters; the cache directory is new.  The
\* source derives max_memory_entries from max_memory_mb; here the capacity
\* is drawn from 1..MaxMemoryEntries so that the identifiers overflow it.
NoCall ==
    [ op |-> "__init__", namespace |-> "", key |-> None, args |-> <<>>,
      value |-> None, ttl |-> None, ret |-> None, t |-> 0, removed |-> 0,
      fault |-> "none", raised |-> FALSE, unreadable |-> {} ]

Constructed(capacities) ==
    /\ now = 0
    /\ max_memory_entries \in capacities
    /\ self_config = _load_cache_config(NoFile)
    /\ memory_cache = <<>>
    /\ cache_stats = [hits |-> 0, misses |-> 0, evictions |-> 0]
    /\ cache_entries = {}
    /\ file_cache_dir = {}
    /\ recency = <<>>
    /\ calls = 0
    /\ last = NoCall
    /\ pre = [ memory_cache |-> <<>>,
               cache_stats |-> [hits |-> 0, misses |-> 0, evictions |-> 0],
               cache_entries |-> {}, file_cache_dir |-> {}, recency |-> <<>>,
               last |-> NoCall ]
    /\ _lock = None
    /\ threads = [th \in Threads |-> Idle]

Init == Constructed(1..MaxMemoryEntries)

\* CacheManager(cache_dir, max_memory_mb=0): (0 * 1024 * 1024) // 1024 = 0.
InitDisabled == Constructed({0})

\* Line 26: self.max_memory_entries = (max_memory_mb * 1024 * 1024) // 1024
max_memory_entries_of(max_memory_mb) == (max_memory_mb * 1024 * 1024) \div 1024

\* The max_memory_mb arguments of the constructor: negative, zero, positive.
Budgets == { -1, 0, 1 }

InitBudget == Constructed({ max_memory_entries_of(max_memory_mb) : max_memory_mb \in Budgets })

\* The ttl arguments callers pass to set: zero, and one that outlasts a clock tick.
SetTtls == { Some(0), Some(2) }

\* The key arguments callers pass to invalidate: omitted, empty, or a stored key.
InvalidateKeys(namespace) ==
    {None, Some("")} \cup { Some(t.key) : t \in { u \in Tuples : u.namespace = namespace } }

Next ==
    \/ \E t \in Tuples :
          calls < MaxCalls /\ get(t.namespace, t.key, t.args)
    \/ \E t \in Tuples, value \in Values, ttl \in SetTtls :
          calls < MaxCalls /\ set(t.namespace, t.key, value, ttl, t.args)
    \/ \E namespace \in Namespaces : \E key \in InvalidateKeys(namespace) :
          calls < MaxCalls /\ invalidate(namespace, key, <<>>)
    \/ calls < MaxCalls /\ cleanup_expired
    \/ Tick

Spec == Init /\ [][Next]_vars

\* The workload of Spec with get_stats among the calls.
NextCounts ==
    \/ Next
    \/ calls < MaxCalls /\ get_stats

SpecCounts == Init /\ [][NextCounts]_vars

\* The same workload on caches constructed from a memory budget.
SpecBudget == InitBudget /\ [][Next]_vars

\* The same workload on a cache constructed with a memory budget of zero.
SpecDisabled == InitDisabled /\ [][Next]_vars

(***************************************************************************)
(* Two narrower workloads with one more call each.  SpecSweep: sets, gets, *)
(* sweeps and the clock.  SpecLru: a third tuple, so that a capacity of    *)
(* two overflows with two entries left to choose the victim from; every    *)
(* entry outlives the run.                                                 *)
(***************************************************************************)
NextSweep ==
    \/ \E t \in Tuples :
          calls < MaxSweepCalls /\ get(t.namespace, t.key, t.args)
    \/ \E t \in Tuples, value \in Values, ttl \in SetTtls :
          calls < MaxSweepCalls /\ set(t.namespace, t.key, value, ttl, t.args)
    \/ calls < MaxSweepCalls /\ cleanup_expired
    \/ Tick

SpecSweep == Init /\ [][NextSweep]_vars

LruTuples == Tuples \cup { [namespace |-> "ns", key |-> "k", args |-> <<>>] }

NextLru ==
    \/ \E t \in LruTuples :
          calls < MaxLruCalls /\ get(t.namespace, t.key, t.args)
    \/ \E t \in LruTuples, value \in Values :
          calls < MaxLruCalls /\ set(t.namespace, t.key, value, Some(2), t.args)

SpecLru == Init /\ [][NextLru]_vars

(***************************************************************************)
(* SpecInvalidate: two tuples of one namespace, one of them with the empty *)
(* string as its key, and invalidate always called with a key.             *)
(***************************************************************************)
KeyedTuples ==
    { [namespace |-> "a", key |-> "k", args |-> <<>>],
      [namespace |-> "a", key |-> "",  args |-> <<>>] }

NextInvalidate ==
    \/ \E t \in KeyedTuples :
          calls < MaxInvalidateCalls /\ get(t.namespace, t.key, t.args)
    \/ \E t \in KeyedTuples, value \in Values :
          calls < MaxInvalidateCalls /\ set(t.namespace, t.key, value, Some(2), t.args)
    \/ \E t \in KeyedTuples :
          calls < MaxInvalidateCalls /\ invalidate(t.namespace, Some(t.key), t.args)

SpecInvalidate == Init /\ [][NextInvalidate]_vars

(***************************************************************************)
(* SpecCodec: tuples with extra arguments, in both orders, and a key that  *)
(* contains the separator.                                                 *)
(***************************************************************************)
CodecTuples ==
    { [namespace |-> "a", key |-> "b",   args |-> <<"1", "2">>],
      [namespace |-> "a", key |-> "b",   args |-> <<"2", "1">>],
      [namespace |-> "a", key |-> "b",   args |-> <<"c">>],
      [namespace |-> "a", key |-> "b:c", args |-> <<>>],
      [namespace |-> "a", key |-> "b",   args |-> <<>>] }

NextCodec ==
    \/ \E t \in CodecTuples :
          calls < MaxCodecCalls /\ generate_key(t.namespace, t.key, t.args)
    \/ \E t \in CodecTuples :
          calls < MaxCodecCalls /\ get(t.namespace, t.key, t.args)
    \/ \E t \in CodecTuples, value \in Values :
          calls < MaxCodecCalls /\ set(t.namespace, t.key, value, Some(2), t.args)

SpecCodec == Init /\ [][NextCodec]_vars

(***************************************************************************)
(* SpecSet: values on both sides of both size thresholds, a namespace with *)
(* a configured ttl and one without, and set called with and without ttl.  *)
(***************************************************************************)
BoundaryValues == Values \cup { [name |-> "v1048575", pickled |-> 1048575] }

ConfiguredTuples ==
    { [namespace |-> "database", key |-> "q1", args |-> <<>>],
      [namespace |-> "a",        key |-> "k",  args |-> <<>>] }

NextSet ==
    \/ \E t \in ConfiguredTuples :
          calls < MaxSetCalls /\ get(t.namespace, t.key, t.args)
    \/ \E t \in ConfiguredTuples, value \in BoundaryValues, ttl \in SetTtls \cup {None} :
          calls < MaxSetCalls /\ set(t.namespace, t.key, value, ttl, t.args)
    \/ Tick

SpecSet == Init /\ [][NextSet]_vars

(***************************************************************************)
(* SpecStats: gets that hit and miss, with get_stats between them.         *)
(***************************************************************************)
NextStats ==
    \/ \E t \in Tuples :
          calls < MaxStatsCalls /\ get(t.namespace, t.key, t.args)
    \/ \E t \in Tuples, value \in Values :
          calls < MaxStatsCalls /\ set(t.namespace, t.key, value, Some(2), t.args)
    \/ calls < MaxStatsCalls /\ get_stats

SpecStats == Init /\ [][NextStats]_vars

(***************************************************************************)
(* SpecThreads: two threads, one tuple.  The clock moves while no thread   *)
(* is inside a call, so that every call sees one clock reading, as the     *)
(* calls of the other specifications do.                                   *)
(***************************************************************************)
ThreadTuple == [namespace |-> "a", key |-> "k", args |-> <<>>]

\* The calls a thread makes: op, key, value, ttl.
Requests ==
    { [op |-> "get", key |-> Some(ThreadTuple.key), value |-> None, ttl |-> None] }
    \cup { [op |-> "set", key |-> Some(ThreadTuple.key), value |-> Some(v), ttl |-> ttl]
             : v \in Values, ttl \in SetTtls }
    \cup { [op |-> "invalidate", key |-> k, value |-> None, ttl |-> None]
             : k \in {None, Some(ThreadTuple.key)} }
    \cup { [op |-> "cleanup_expired", key |-> None, value |-> None, ttl |-> None] }
    \cup { [op |-> "get_stats", key |-> None, value |-> None, ttl |-> None] }

QuiescentTick ==
    /\ \A th \in Threads : threads[th].pc \in {"idle", "done"}
    /\ Tick

NextThreads ==
    \/ \E th \in Threads, q \in Requests :
          /\ calls < MaxThreadCalls
          /\ begin(th, q.op, IF q.op \in {"cleanup_expired", "get_stats"} THEN ""
                             ELSE ThreadTuple.namespace,
                   q.key, ThreadTuple.args, q.value, q.ttl)
    \/ \E th \in Threads : acquire(th)
    \/ \E th \in Threads : get_l1(th)
    \/ \E th \in Threads : get_l2(th)
    \/ \E th \in Threads : get_l2_promote(th)
    \/ \E th \in Threads : get_l3(th)
    \/ \E th \in Threads : get_l3_promote_l1(th)
    \/ \E th \in Threads : get_l3_promote_l2(th)
    \/ \E th \in Threads : set_write(th)
    \/ \E th \in Threads : set_meta(th)
    \/ \E th \in Threads : invalidate_l1(th)
    \/ \E th \in Threads : invalidate_l2(th)
    \/ \E th \in Threads : invalidate_l3(th)
    \/ \E th \in Threads : cleanup_l1(th)
    \/ \E th \in Threads : cleanup_l2(th)
    \/ \E th \in Threads : cleanup_l3(th)
    \/ \E th \in Threads : stats_counters(th)
    \/ \E th \in Threads : stats_database(th)
    \/ \E th \in Threads : stats_files(th)
    \/ \E th \in Threads : release(th)
    \/ QuiescentTick

SpecThreads == Init /\ [][NextThreads]_vars

(***************************************************************************)
(* Threads under fair scheduling, one of whose calls may raise inside the  *)
(* with block.  A thread that has entered a method is scheduled again and  *)
(* again: each step of the body and the release are weakly fair; the       *)
(* acquisition, which another thread holding the lock disables, is         *)
(* strongly fair.  Entering a method is the caller's choice and not fair.  *)
(***************************************************************************)
body_step(th) ==
    \/ get_l1(th) \/ get_l2(th) \/ get_l2_promote(th)
    \/ get_l3(th) \/ get_l3_promote_l1(th) \/ get_l3_promote_l2(th)
    \/ set_write(th) \/ set_meta(th)
    \/ invalidate_l1(th) \/ invalidate_l2(th) \/ invalidate_l3(th)
    \/ invalidate_l3_raising(th)
    \/ cleanup_l1(th) \/ cleanup_l2(th) \/ cleanup_l3(th)
    \/ stats_counters(th) \/ stats_database(th) \/ stats_files(th)

\* The requests of the fair threads: every method, set with a value for
\* the database tier or the file tier.
FairRequests ==
    { q \in Requests : q.op = "set" => (_estimate_size(q.value[1]) >= L1Limit /\ q.ttl = Some(2)) }

NextThreadsFair ==
    \/ \E th \in Threads, q \in FairRequests :
          /\ calls < MaxFairCalls
          /\ begin(th, q.op, IF q.op \in {"cleanup_expired", "get_stats"} THEN ""
                             ELSE ThreadTuple.namespace,
                   q.key, ThreadTuple.args, q.value, q.ttl)
    \/ \E th \in Threads : acquire(th)
    \/ \E th \in Threads : body_step(th)
    \/ \E th \in Threads : release(th)
    \/ QuiescentTick

SpecThreadsFair ==
    /\ Init /\ [][NextThreadsFair]_vars
    /\ \A th \in Threads :
          /\ SF_vars(acquire(th))
          /\ WF_vars(body_step(th))
          /\ WF_vars(release(th))

(***************************************************************************)
(* SpecFaults: the calls of Spec, without cleanup_expired, each also with  *)
(* a storage step that raises.                                             *)
(***************************************************************************)
NextFaults ==
    \/ \E t \in Tuples :
          calls < MaxFaultCalls /\ get(t.namespace, t.key, t.args)
    \/ \E t \in Tuples, value \in Values, ttl \in SetTtls :
          calls < MaxFaultCalls /\ set(t.namespace, t.key, value, ttl, t.args)
    \/ \E t \in Tuples : \E key \in {None, Some(t.key)} :
          calls < MaxFaultCalls /\ invalidate(t.namespace, key, t.args)
    \/ \E t \in Tuples, fault \in GetFaults :
          calls < MaxFaultCalls /\ get_failing(t.namespace, t.key, t.args, fault)
    \/ \E t \in Tuples, value \in Values, ttl \in SetTtls, fault \in SetFaults :
          calls < MaxFaultCalls /\ set_failing(t.namespace, t.key, value, ttl, t.args, fault)
    \/ \E t \in Tuples, fault \in InvalidateFaults : \E key \in {None, Some(t.key)} :
          calls < MaxFaultCalls /\ invalidate_failing(t.namespace, key, t.args, fault)
    \/ Tick

SpecFaults == Init /\ [][NextFaults]_vars

(***************************************************************************)
(* Sweeps over a file directory in which some metadata files cannot be     *)
(* read: three tuples, two of them in one namespace.                       *)
(***************************************************************************)
NextSweepFaults ==
    \/ calls < MaxSweepFaultCalls /\ \E t \in LruTuples, value \in Values, ttl \in SetTtls :
            set(t.namespace, t.key, value, ttl, t.args)
    \/ calls < MaxSweepFaultCalls /\ \E unreadable \in SUBSET { KeyOf(t) : t \in LruTuples } :
            cleanup_expired_failing(unreadable)
    \/ calls < MaxSweepFaultCalls /\ \E t \in LruTuples :
            \E unreadable \in SUBSET { KeyOf(u) : u \in LruTuples } :
                invalidate_namespace_failing(t.namespace, unreadable)
    \/ Tick

SpecSweepFaults == Init /\ [][NextSweepFaults]_vars

(***************************************************************************)
(* Puts that lose their metadata file and invalidations that lose only the *)
(* data file, followed by reads, sweeps and further sets.                  *)
(***************************************************************************)
NextOrphans ==
    \/ calls < MaxOrphanCalls /\ \E t \in Tuples : get(t.namespace, t.key, t.args)
    \/ calls < MaxOrphanCalls /\ \E t \in Tuples, value \in Values, ttl \in SetTtls :
            set(t.namespace, t.key, value, ttl, t.args)
    \/ calls < MaxOrphanCalls /\ cleanup_expired
    \/ calls < MaxOrphanCalls /\ \E t \in Tuples, value \in Values, ttl \in SetTtls :
            set_failing(t.namespace, t.key, value, ttl, t.args, "file_meta")
    \/ calls < MaxOrphanCalls /\ \E t \in Tuples : \E key \in {None, Some(t.key)} :
            invalidate_failing(t.namespace, key, t.args, "unlink_meta")
    \/ Tick

SpecOrphans == Init /\ [][NextOrphans]_vars

(***************************************************************************)
(* The cache reconstructed over every kind of config file, and set called  *)
(* with and without a ttl in namespaces with and without a ttl option.     *)
(***************************************************************************)
NextConfig ==
    \/ calls < MaxConfigCalls /\ \E file \in ConfigFiles : __init__(file)
    \/ calls < MaxConfigCalls /\ \E t \in ConfiguredTuples, v \in Values, ttl \in {None, Some(0)} :
            set(t.namespace, t.key, v, ttl, t.args)
    \/ calls < MaxConfigCalls /\ \E t \in ConfiguredTuples : get(t.namespace, t.key, t.args)
    \/ Tick

SpecConfig == Init /\ [][NextConfig]_vars

(***************************************************************************)
(* Sets and gets with restarts between them: a new CacheManager on the     *)
(* same cache directory, without a config file.                            *)
(***************************************************************************)
NextRestart ==
    \/ calls < MaxRestartCalls /\ __init__(NoFile)
    \/ calls < MaxRestartCalls /\ \E t \in Tuples, value \in Values, ttl \in SetTtls :
            set(t.namespace, t.key, value, ttl, t.args)
    \/ calls < MaxRestartCalls /\ \E t \in Tuples : get(t.namespace, t.key, t.args)
    \/ Tick

SpecRestart == Init /\ [][NextRestart]_vars

(***************************************************************************)
(* Sets of large values that complete and sets that the process does not   *)
(* survive, followed by gets of the next process.                          *)
(***************************************************************************)
NextCrash ==
    \/ calls < MaxCrashCalls /\ \E t \in Tuples : get(t.namespace, t.key, t.args)
    \/ calls < MaxCrashCalls /\ \E t \in Tuples, value \in Values, ttl \in SetTtls :
            set(t.namespace, t.key, value, ttl, t.args)
    \/ calls < MaxCrashCalls /\ \E t \in Tuples, value \in Values, ttl \in SetTtls :
            \E point \in CrashPoints :
                set_crashing(t.namespace, t.key, value, ttl, t.args, point)
    \/ Tick

SpecCrash == Init /\ [][NextCrash]_vars

(***************************************************************************)
(* Properties.  Each is stated over the last call (`last`), the state it   *)
(* started in (`pre`) and the state it left.                               *)
(***************************************************************************)
\* The identifier the last get or set computed.
LastKey == _generate_key(last.namespace, last.key[1], last.args)

SameTuple(a, b) == a.namespace = b.namespace /\ a.key = b.key /\ a.args = b.args

\* The last call was a get that directly followed a set of the same tuple.
GetAfterSet ==
    /\ last.op = "get"
    /\ pre.last.op = "set"
    /\ SameTuple(last, pre.last)

\* The expiry the set before the last call computed.
SetExpiry == pre.last.t + pre.last.ttl[1]

\* Some tier of state s holds a copy of `key` that expires after t.
UnexpiredCopy(s, key, t) ==
    \/ \E i \in DOMAIN s.memory_cache :
          s.memory_cache[i].key = key /\ s.memory_cache[i].expires_at > t
    \/ \E r \in s.cache_entries : r.key = key /\ r.expires_at > t
    \/ \E m \in glob_meta(s.file_cache_dir) : m.stem = key /\ m.content.expires_at > t

\* C1: a set with ttl > 0 followed immediately by a get of the same
\* (namespace, key, extraArgs), before the TTL elapses, returns the value
\* that was set, whichever tier its size routed it to.
C1_SetThenGetReturnsValue ==
    (GetAfterSet /\ pre.last.ttl[1] > 0 /\ last.t < SetExpiry)
        => last.ret = pre.last.value

\* C2: when no tier holds a copy of the identifier that expires after the
\* clock reading of a get (every copy has now >= expires_at), the get
\* returns a miss, whether or not cleanup_expired has run.
C2_ExpiredIsMiss ==
    (last.op = "get" /\ ~UnexpiredCopy(pre, LastKey, last.t))
        => last.ret = None

\* C3: after cleanup_expired at clock t no tier holds an entry with
\* expires_at < t, every entry with expires_at >= t is still there with its
\* value and expiry, and nothing else was added.
C3_CleanupRemovesExactlyExpired ==
    last.op = "cleanup_expired" =>
        LET t == last.t
        IN  /\ \A i \in DOMAIN memory_cache : memory_cache[i].expires_at >= t
            /\ \A r \in cache_entries : r.expires_at >= t
            /\ \A m \in glob_meta(file_cache_dir) : m.content.expires_at >= t
            /\ memory_cache = SelectSeq(pre.memory_cache, LAMBDA e : e.expires_at >= t)
            /\ \A r \in pre.cache_entries : r.expires_at >= t => r \in cache_entries
            /\ \A m \in glob_meta(pre.file_cache_dir) :
                  m.content.expires_at >= t =>
                      { f \in pre.file_cache_dir : f.stem = m.stem } \subseteq file_cache_dir
            /\ cache_entries \subseteq pre.cache_entries
            /\ file_cache_dir \subseteq pre.file_cache_dir

\* Witness of C3: a cleanup_expired removed an expired entry and kept a live one.
C3_Witness ==
    /\ last.op = "cleanup_expired"
    /\ last.removed > 0
    /\ Len(memory_cache) + Cardinality(cache_entries) + Cardinality(file_cache_dir) > 0

\* C5: the first get after a set whose value is routed to L3, made before
\* the expiry, leaves L1 and L2 each holding the identifier with the value
\* that was set and the expiry the set computed.
C5_BlobPromotion ==
    (/\ GetAfterSet
     /\ tier_of(_estimate_size(pre.last.value[1])) = "L3"
     /\ last.t < SetExpiry)
        => /\ in_memory(memory_cache, LastKey)
           /\ entry_of(memory_cache, LastKey).value = pre.last.value[1]
           /\ entry_of(memory_cache, LastKey).expires_at = SetExpiry
           /\ \E r \in cache_entries :
                 r.key = LastKey /\ r.value = pre.last.value[1] /\ r.expires_at = SetExpiry

\* The rows and the metadata a get at the clock of the last call finds live.
LiveRows == { r \in pre.cache_entries : r.key = LastKey /\ r.expires_at > last.t }

LiveMetas ==
    { m \in glob_meta(pre.file_cache_dir) :
         /\ m.stem = LastKey
         /\ exists(pre.file_cache_dir, LastKey, ".cache")
         /\ ~(last.t > m.content.expires_at) }

L1Missed == ~l1_live(pre.memory_cache, LastKey, last.t)

\* C6: a get that misses L1 and hits an L2 row copies the row's value into
\* L1 with exactly the row's expires_at; a get that misses L1 and L2 and
\* hits L3 copies the value into L1 and L2 with exactly the expires_at of
\* the metadata.
C6_PromotionKeepsExpiry ==
    (last.op = "get" /\ L1Missed) =>
        /\ \A r \in LiveRows :
              /\ in_memory(memory_cache, LastKey)
              /\ entry_of(memory_cache, LastKey).value = r.value
              /\ entry_of(memory_cache, LastKey).expires_at = r.expires_at
        /\ LiveRows = {} =>
              \A m \in LiveMetas :
                  /\ in_memory(memory_cache, LastKey)
                  /\ entry_of(memory_cache, LastKey).expires_at = m.content.expires_at
                  /\ \E r \in cache_entries :
                        r.key = LastKey /\ r.expires_at = m.content.expires_at

\* Witness of C6: a get made after the clock moved missed L1 and promoted an L2 row.
C6_Witness ==
    /\ last.op = "get"
    /\ L1Missed
    /\ LiveRows # {}
    /\ last.ret # None
    /\ \E r \in LiveRows : r.last_accessed < last.t
    /\ in_memory(memory_cache, LastKey)

\* C7: memory_cache never holds more than max_memory_entries entries.
C7_MemoryBounded == Len(memory_cache) <= max_memory_entries

\* Witness of C7: the memory tier is full and an eviction has happened.
C7_Witness ==
    /\ Len(memory_cache) = max_memory_entries
    /\ cache_stats.evictions > 0

\* The last two calls were cleanup_expired at the same clock reading.
CleanupTwice ==
    /\ last.op = "cleanup_expired"
    /\ pre.last.op = "cleanup_expired"
    /\ pre.last.t = last.t

\* C4: a second cleanup_expired at the same clock reading, directly after
\* the first, removes nothing and leaves the three tiers and the counters
\* as the first call left them.
C4_CleanupIdempotent ==
    CleanupTwice =>
        /\ last.removed = 0
        /\ memory_cache = pre.memory_cache
        /\ cache_entries = pre.cache_entries
        /\ file_cache_dir = pre.file_cache_dir
        /\ cache_stats = pre.cache_stats

\* Witness of C4: the first of the two cleanups removed an entry and left another.
C4_Witness ==
    /\ CleanupTwice
    /\ pre.last.removed > 0
    /\ Len(memory_cache) + Cardinality(cache_entries) + Cardinality(file_cache_dir) > 0

\* The identifiers, other than the one the last call used, that left
\* memory_cache during the last call.
Evicted == (memory_keys(pre.memory_cache) \ memory_keys(memory_cache)) \ {LastKey}

\* The identifiers of memory_cache before the last call, least recently
\* inserted or hit first, without the one the last call used.
RecencyBefore == SelectSeq(pre.recency, LAMBDA k : k # LastKey)

\* C8: when a get or a set evicts from memory_cache, the evicted
\* identifiers are exactly the least recently inserted-or-hit ones, and the
\* evictions counter grows by exactly their number.
C8_EvictsLeastRecentlyUsed ==
    (last.op \in {"get", "set"} /\ Evicted # {}) =>
        /\ cache_stats.evictions = pre.cache_stats.evictions + Cardinality(Evicted)
        /\ Evicted = { RecencyBefore[i] : i \in 1..Cardinality(Evicted) }

\* The identifiers stored under a namespace.
KeysOf(namespace) == { KeyOf(t) : t \in { u \in LruTuples : u.namespace = namespace } }

HoldsKey(key) ==
    \/ in_memory(memory_cache, key)
    \/ \E r \in cache_entries : r.key = key
    \/ \E f \in file_cache_dir : f.stem = key

\* C9: after invalidate(namespace) with no key, no tier holds an entry that
\* was stored under the namespace, and a get that follows directly for a
\* tuple of the namespace returns a miss.
C9_NamespacePurged ==
    /\ (last.op = "invalidate" /\ last.key = None) =>
           \A key \in KeysOf(last.namespace) : ~HoldsKey(key)
    /\ (/\ last.op = "get"
        /\ pre.last.op = "invalidate" /\ pre.last.key = None
        /\ pre.last.namespace = last.namespace) => last.ret = None

\* C10: invalidate(namespace) with no key leaves every entry of every other
\* namespace as it was, in all three tiers.
C10_OtherNamespacesUntouched ==
    (last.op = "invalidate" /\ last.key = None) =>
        \A t \in { u \in Tuples : u.namespace # last.namespace } :
            LET key == KeyOf(t)
            IN  /\ in_memory(pre.memory_cache, key) =>
                      /\ in_memory(memory_cache, key)
                      /\ entry_of(memory_cache, key) = entry_of(pre.memory_cache, key)
                /\ { r \in cache_entries : r.key = key }
                      = { r \in pre.cache_entries : r.key = key }
                /\ { f \in file_cache_dir : f.stem = key }
                      = { f \in pre.file_cache_dir : f.stem = key }

\* The files of a directory that do not belong to an identifier.
FilesBut(dir, key) == { f \in dir : f.stem # key }

\* C11: invalidate(namespace, key, args) with a key removes the identifier
\* of the tuple from all three tiers and leaves every other identifier as
\* it was; a get of the same tuple that follows directly returns a miss.
C11_SingleKeyInvalidate ==
    /\ (last.op = "invalidate" /\ last.key # None) =>
           /\ ~HoldsKey(LastKey)
           /\ del_key(memory_cache, LastKey) = del_key(pre.memory_cache, LastKey)
           /\ { r \in cache_entries : r.key # LastKey }
                 = { r \in pre.cache_entries : r.key # LastKey }
           /\ FilesBut(file_cache_dir, LastKey) = FilesBut(pre.file_cache_dir, LastKey)
    /\ (/\ last.op = "get"
        /\ pre.last.op = "invalidate" /\ pre.last.key # None
        /\ SameTuple(last, pre.last)) => last.ret = None

\* The identifiers that some tier held before the last call and no longer holds.
LeftATier ==
    (memory_keys(pre.memory_cache) \ memory_keys(memory_cache))
        \cup (row_keys(pre.cache_entries) \ row_keys(cache_entries))
        \cup ({ f.stem : f \in pre.file_cache_dir } \ { f.stem : f \in file_cache_dir })

\* C12: invalidate(namespace, "") is a single-key invalidation: the only
\* identifier it removes is the one of (namespace, ""), which no tier
\* holds afterwards; the rest of the namespace stays.
C12_EmptyKeyIsAKey ==
    (last.op = "invalidate" /\ last.key = Some("")) =>
        /\ LeftATier \subseteq { _generate_key(last.namespace, "", last.args) }
        /\ ~HoldsKey(_generate_key(last.namespace, "", last.args))

\* The last two calls were calls of _generate_key.
TwoIdentifiers == last.op = "_generate_key" /\ pre.last.op = "_generate_key"

\* Two argument lists hold the same distinct arguments in different orders.
Reordered(a, b) ==
    /\ a # b
    /\ Len(a) = Len(b)
    /\ { a[i] : i \in DOMAIN a } = { b[i] : i \in DOMAIN b }
    /\ Cardinality({ a[i] : i \in DOMAIN a }) = Len(a)

C14_NoCollision ==
    /\ (TwoIdentifiers /\ ~SameTuple(last, pre.last)) => last.ret # pre.last.ret
    /\ (/\ calls = 2
        /\ last.op = "get" /\ pre.last.op = "set"
        /\ ~SameTuple(last, pre.last)) => last.ret = None

\* What each tier holds for the identifier of the last call: the L1 entry,
\* the L2 rows, the L3 data and metadata files.
InL1(value) ==
    in_memory(memory_cache, LastKey) /\ entry_of(memory_cache, LastKey).value = value

InL2(value) == \E r \in cache_entries : r.key = LastKey /\ r.value = value

InL3(value) ==
    \E f \in file_cache_dir :
        f.stem = LastKey /\ f.suffix = ".cache" /\ f.content.pickle = value

\* The pickled size of the value of the last set.
LastSize == _estimate_size(last.value[1])

\* C15: a set stores a value of size < 1024 in L1, one of size
\* 1024..1048575 in L2 and one of size >= 1048576 in L3.
C15_TierBySize ==
    last.op = "set" =>
        /\ LastSize < 1024 => InL1(last.value[1])
        /\ (1024 <= LastSize /\ LastSize < 1048576) => InL2(last.value[1])
        /\ LastSize >= 1048576 => InL3(last.value[1])

\* Witness of C15: values of 1048576 and then 1048575 bytes were set; the
\* second is a row of L2.
C15_Witness ==
    /\ last.op = "set" /\ LastSize = 1048575 /\ InL2(last.value[1])
    /\ pre.last.op = "set" /\ _estimate_size(pre.last.value[1]) = 1048576

\* The (identifier, value) pairs held by L1 and by L2 in a state.
MemoryCopies(mem) == { <<mem[i].key, mem[i].value>> : i \in DOMAIN mem }

RowCopies(rows) == { <<r.key, r.value>> : r \in rows }

\* C16: a set changes one tier only, the one of the value's size class,
\* which holds the value afterwards; and a copy of a value of 1024 bytes or
\* more appears in L1, or of 1048576 bytes or more in L2, only during a get
\* of its identifier.
C16_SetWritesOneTier ==
    /\ last.op = "set" =>
        /\ LastSize < 1024 =>
              /\ InL1(last.value[1])
              /\ cache_entries = pre.cache_entries
              /\ file_cache_dir = pre.file_cache_dir
        /\ (1024 <= LastSize /\ LastSize < 1048576) =>
              /\ InL2(last.value[1])
              /\ memory_cache = pre.memory_cache
              /\ file_cache_dir = pre.file_cache_dir
        /\ LastSize >= 1048576 =>
              /\ InL3(last.value[1])
              /\ memory_cache = pre.memory_cache
              /\ cache_entries = pre.cache_entries
    /\ \A c \in MemoryCopies(memory_cache) \ MemoryCopies(pre.memory_cache) :
           _estimate_size(c[2]) >= 1024 => (last.op = "get" /\ LastKey = c[1])
    /\ \A c \in RowCopies(cache_entries) \ RowCopies(pre.cache_entries) :
           _estimate_size(c[2]) >= 1048576 => (last.op = "get" /\ LastKey = c[1])

\* Witness of C16: a value of 1048576 bytes was set while L1 held an entry
\* and L2 a row; neither holds the identifier, the file tier does.
C16_Witness ==
    /\ last.op = "set" /\ LastSize >= 1048576 /\ InL3(last.value[1])
    /\ pre.memory_cache # <<>> /\ pre.cache_entries # {}
    /\ ~in_memory(memory_cache, LastKey)
    /\ ~\E r \in cache_entries : r.key = LastKey

\* The expiry the last set stored, read from the tier of its size class.
StoredExpiry ==
    IF LastSize < 1024 THEN { entry_of(memory_cache, LastKey).expires_at }
    ELSE IF LastSize < 1048576 THEN { r.expires_at : r \in { q \in cache_entries : q.key = LastKey } }
    ELSE { f.content.expires_at :
             f \in { g \in file_cache_dir : g.stem = LastKey /\ g.suffix = ".meta" } }

C18_GetCountsOnce ==
    /\ (last.op = "get" /\ last.ret # None) =>
          /\ cache_stats.hits = pre.cache_stats.hits + 1
          /\ cache_stats.misses = pre.cache_stats.misses
    /\ (last.op = "get" /\ last.ret = None) =>
          /\ cache_stats.misses = pre.cache_stats.misses + 1
          /\ cache_stats.hits = pre.cache_stats.hits
    /\ last.op # "get" =>
          /\ cache_stats.hits = pre.cache_stats.hits
          /\ cache_stats.misses = pre.cache_stats.misses
    /\ cache_stats.hits + cache_stats.misses <= calls

\* Witness of C18: a get that missed, after a get that hit.
C18_Witness ==
    /\ last.op = "get" /\ last.ret = None
    /\ pre.last.op = "get" /\ pre.last.ret # None
    /\ cache_stats.hits = 1 /\ cache_stats.misses = 1

\* C19: the hit_ratio get_stats returns has a non-zero divisor and equals
\* hits / (hits + misses) of the counters at the call, and is 0 when both
\* counters are 0.
C19_HitRatio ==
    last.op = "get_stats" =>
        LET ratio == last.ret[1].hit_ratio
            total == cache_stats.hits + cache_stats.misses
        IN  /\ ratio.den > 0
            /\ total = 0 => ratio.num = 0
            /\ total > 0 => ratio.num * total = cache_stats.hits * ratio.den

\* Witness of C19: get_stats called after one hit and one miss.
C19_Witness ==
    /\ last.op = "get_stats"
    /\ cache_stats.hits = 1 /\ cache_stats.misses = 1
    /\ last.ret[1].hit_ratio = [num |-> 1, den |-> 2]

\* A thread is inside the with block of its call.
InBody(th) == threads[th].pc \notin {"idle", "acquire", "done"}

\* The two threads have completed, from the empty cache, a set and an
\* invalidate of the same tuple and nothing else.
SetAndInvalidate ==
    /\ calls = 2
    /\ \A th \in Threads : threads[th].pc = "done"
    /\ \E a, b \in Threads :
          /\ threads[a].op = "set" /\ threads[b].op = "invalidate"
          /\ threads[b].key = threads[a].key

\* C20: a thread inside the body of a call holds the lock, alone; when it
\* reaches the end of the body the tiers, the counters and its return
\* value are what the whole call, run in one piece on the state the thread
\* found when it took the lock, leaves and returns; and after a set and an
\* invalidate of one identifier by two threads the identifier is either in
\* the tier of its size class, complete, or in no tier.
C20_CallsAreAtomic ==
    /\ \A th \in Threads : InBody(th) => _lock = Some(th)
    /\ \A th \in Threads :
          threads[th].pc = "release" =>
              LET e == threads[th].expect[1]
              IN  /\ memory_cache = e.mem
                  /\ cache_stats = e.stats
                  /\ cache_entries = e.rows
                  /\ file_cache_dir = e.dir
                  /\ threads[th].ret = e.ret
    /\ SetAndInvalidate =>
          LET id == KeyOf(ThreadTuple)
          IN  \/ ~HoldsKey(id)
              \/ in_memory(memory_cache, id)
              \/ \E r \in cache_entries : r.key = id
              \/ exists(file_cache_dir, id, ".cache") /\ exists(file_cache_dir, id, ".meta")

\* Witness of C20: a thread has finished the body of a get that promoted a
\* file hit while the other thread waits for the lock to invalidate.
C20_Witness ==
    \E a, b \in Threads :
        /\ threads[a].pc = "release" /\ threads[a].op = "get"
        /\ threads[a].ret # None /\ _estimate_size(threads[a].ret[1]) >= 1048576
        /\ threads[b].pc = "acquire" /\ threads[b].op = "invalidate"
        /\ _lock = Some(a)

\* The last call was a get that found its value in the file tier: L1 and
\* L2 held no live copy and a value came back.
PromotedFromFiles ==
    /\ last.op = "get" /\ last.ret # None
    /\ L1Missed /\ LiveRows = {}

\* C21: after a get that promoted an identifier from the file tier, L1 and
\* L2 both hold the value (the capacity being at least one, nothing evicts
\* the entry just stored).
C21_PromotionComplete ==
    PromotedFromFiles => (InL1(last.ret[1]) /\ InL2(last.ret[1]))

\* C22: a set whose write to L2 or L3 raised reports the failure to its caller.
C22_WriteFailureReported ==
    (last.op = "set" /\ last.fault # "none") => last.raised

\* C23: a get, invalidate, cleanup_expired or get_stats in which a storage
\* step raised returns normally, and a get that could not read the files
\* returns a miss.
C23_FailuresContained ==
    (last.op \in {"get", "invalidate", "cleanup_expired", "get_stats"}
        /\ last.fault # "none") =>
            /\ ~last.raised
            /\ (last.op = "get" /\ last.fault = "file_read") => last.ret = None

\* C24: whatever the config file holds (absent, unparsable, empty, without a
\* cache section, or with a cache section that omits options), construction
\* succeeds with a configuration that has ttl_default, and a set without ttl
\* never fails.
C24_ConfigDefaults ==
    /\ (last.op = "__init__") =>
            (~last.raised /\ self_config # None /\ "ttl_default" \in DOMAIN self_config[1])
    /\ (last.op = "set" /\ last.ttl = None /\ last.fault = "none") => ~last.raised

\* The entries of memory_cache other than the one of the last call, in order.
Others(mem) == SelectSeq(mem, LAMBDA e : e.key # LastKey)

\* C25: a get that finds its identifier in memory_cache returns the entry's
\* value only if the clock reading is below expires_at, and then the entry
\* is the last of memory_cache with the others in their order; if the entry
\* is expired the evictions counter does not move and the get answers as
\* if the entry had not been there: from a live row or a live file pair,
\* else a miss that leaves the identifier out of memory_cache.
C25_MemoryRead ==
    (last.op = "get" /\ in_memory(pre.memory_cache, LastKey)) =>
        LET e == entry_of(pre.memory_cache, LastKey)
        IN  /\ cache_stats.evictions = pre.cache_stats.evictions
            /\ Others(memory_cache) = Others(pre.memory_cache)
            /\ IF last.t < e.expires_at
               THEN /\ last.ret = Some(e.value)
                    /\ memory_cache[Len(memory_cache)] = e
                    /\ Len(memory_cache) = Len(pre.memory_cache)
               ELSE /\ (last.ret = None) <=> (LiveRows = {} /\ LiveMetas = {})
                    /\ \A r \in LiveRows : last.ret = Some(r.value)
                    /\ (last.ret = None) => ~in_memory(memory_cache, LastKey)

\* A get found its entry expired in memory_cache, removed it and missed,
\* while another entry stayed.
C25_Witness ==
    /\ last.op = "get" /\ last.ret = None
    /\ in_memory(pre.memory_cache, LastKey)
    /\ ~in_memory(memory_cache, LastKey)
    /\ Len(memory_cache) = 1
    /\ cache_stats.misses = 1

\* The last call put its identifier into memory_cache: a set of a value
\* below the L1 limit, or a get that missed L1 and promoted.
PutIntoMemory ==
    \/ last.op = "set" /\ ~last.raised /\ LastSize < L1Limit
    \/ last.op = "get" /\ L1Missed /\ last.ret # None

\* C26: after a set or a promotion puts an identifier into memory_cache,
\* the identifier is the last (most recently used) entry of memory_cache,
\* whether it was new or replaced an entry of the same identifier.
C26_PutIsMostRecent ==
    (PutIntoMemory /\ in_memory(memory_cache, LastKey)) =>
        memory_cache[Len(memory_cache)].key = LastKey

\* C27: with max_memory_entries = 0 memory_cache is empty after every
\* call, no call raises, and the evictions counter grows by exactly one in a
\* call that puts an entry into memory_cache (a set of a small value or a
\* promoting get) and by nothing in any other call.
C27_MemoryDisabled ==
    (max_memory_entries = 0 /\ last.op # "__init__") =>
        /\ memory_cache = <<>>
        /\ ~last.raised
        /\ cache_stats.evictions =
               pre.cache_stats.evictions + (IF PutIntoMemory THEN 1 ELSE 0)

\* With a capacity of zero a set of a small value was evicted at once, and
\* the get that follows misses.
C27_Witness ==
    /\ max_memory_entries = 0
    /\ last.op = "get" /\ last.ret = None
    /\ pre.last.op = "set" /\ SameTuple(last, pre.last)
    /\ _estimate_size(pre.last.value[1]) < L1Limit /\ pre.last.ttl = Some(2)
    /\ cache_stats.evictions = 1

\* C28: a get that misses L1 and finds a live row of its identifier adds
\* exactly 1 to that row's access_count, sets its last_accessed to the
\* clock reading of the get and leaves every other row and column as it
\* was; a get that finds the row expired or absent and returns a miss, or
\* that is served from L1, changes no row; and no get removes a row.
C28_AccessMetadata ==
    (last.op = "get") =>
        /\ row_keys(pre.cache_entries) \subseteq row_keys(cache_entries)
        /\ (L1Missed /\ LiveRows # {}) =>
               cache_entries =
                   { IF r \in LiveRows
                     THEN [r EXCEPT !.access_count = r.access_count + 1,
                                    !.last_accessed = last.t]
                     ELSE r : r \in pre.cache_entries }
        /\ (~L1Missed \/ (LiveRows = {} /\ last.ret = None)) =>
               cache_entries = pre.cache_entries

\* A row written at time 0 and not read since was read at time 1.
C28_Witness ==
    /\ last.op = "get" /\ last.ret # None /\ last.t = 1
    /\ \E r \in cache_entries :
          /\ r.key = LastKey
          /\ r.access_count = 1 /\ r.last_accessed = 1
          /\ \E q \in pre.cache_entries :
                q.key = LastKey /\ q.access_count = 0 /\ q.last_accessed = 0

\* The rows of the identifier of the last call.
RowsOfKey(rows) == { r \in rows : r.key = LastKey }

\* C29: cache_entries never holds two rows of one identifier; after a set
\* of a medium value the one row of the identifier carries the value, the
\* expiry and the namespace of that set, and after a promotion from L3 it
\* carries the value and the expiry of the file pair and the namespace of
\* the get.
C29_DatabaseUpsert ==
    /\ \A r, q \in cache_entries : r.key = q.key => r = q
    /\ (last.op = "set" /\ tier_of(LastSize) = "L2") =>
           \E r \in cache_entries :
               /\ RowsOfKey(cache_entries) = {r}
               /\ r.value = last.value[1]
               /\ r.expires_at = last.t + last.ttl[1]
               /\ r.category = last.namespace
    /\ (last.op = "get" /\ L1Missed /\ LiveRows = {} /\ last.ret # None) =>
           \E r \in cache_entries : \E m \in LiveMetas :
               /\ RowsOfKey(cache_entries) = {r}
               /\ r.value = last.ret[1]
               /\ r.expires_at = m.content.expires_at
               /\ r.category = last.namespace

\* A put into cache_entries replaced a row of the same identifier that
\* carried another expiry.
C29_Witness ==
    /\ last.op = "set" /\ tier_of(LastSize) = "L2"
    /\ \E q \in RowsOfKey(pre.cache_entries) : q.expires_at # last.t + last.ttl[1]
    /\ Cardinality(RowsOfKey(cache_entries)) = 1

\* The last call was a get that went as far as the file lookup and found
\* the metadata of its identifier missing, expired or unreadable.
DeadBlobRead ==
    /\ last.op = "get" /\ last.fault \in {"none", "file_read"}
    /\ L1Missed /\ LiveRows = {}
    /\ \/ ~exists(pre.file_cache_dir, LastKey, ".meta")
       \/ last.t > read(pre.file_cache_dir, LastKey, ".meta").expires_at
       \/ last.fault = "file_read"

\* C30: a get whose file lookup finds the metadata file missing, expired
\* or unreadable returns a miss and leaves no data file of the identifier.
C30_DeadBlobCleaned ==
    DeadBlobRead =>
        (last.ret = None /\ ~exists(file_cache_dir, LastKey, ".cache"))

\* C31: in no state does a metadata file that is not expired stand next to
\* a partly written data file of the same identifier, wherever inside a
\* put of a large value the process stopped.
C31_NoLiveMetadataOverPartialData ==
    \A m \in glob_meta(file_cache_dir) :
        ~(now > m.content.expires_at) =>
            \A f \in file_cache_dir :
                (f.stem = m.stem /\ f.suffix = ".cache") => f.content.complete

\* The files of `dir` whose partner (the data file of a metadata file, the
\* metadata file of a data file) is not in `dir`.
Orphans(dir) ==
    { f \in dir : ~exists(dir, f.stem, IF f.suffix = ".meta" THEN ".cache" ELSE ".meta") }

\* C32: a get whose identifier has only one of its two files does not
\* return a hit from the files; after cleanup_expired no file without its
\* partner is left; and after a set of a large value the identifier has
\* both files.
C32_OrphansIgnoredAndHealed ==
    /\ (/\ last.op = "get" /\ L1Missed /\ LiveRows = {}
        /\ \E f \in Orphans(pre.file_cache_dir) : f.stem = LastKey) => last.ret = None
    /\ (last.op = "cleanup_expired") => Orphans(file_cache_dir) = {}
    /\ (last.op = "set" /\ last.fault = "none" /\ tier_of(LastSize) = "L3") =>
           ~\E f \in Orphans(file_cache_dir) : f.stem = LastKey

\* C33: get_stats reports as memory_entries, database_entries and
\* file_entries the number of identifiers memory_cache, cache_entries and
\* the file directory held when it was called, expired ones included, and
\* leaves the three tiers and the counters as they were.
C33_StatsCounts ==
    last.op = "get_stats" =>
        /\ last.ret[1].memory_entries = Cardinality(memory_keys(pre.memory_cache))
        /\ last.ret[1].database_entries = Cardinality(row_keys(pre.cache_entries))
        /\ last.ret[1].file_entries = Cardinality(meta_stems(pre.file_cache_dir))
        /\ memory_cache = pre.memory_cache
        /\ cache_entries = pre.cache_entries
        /\ file_cache_dir = pre.file_cache_dir
        /\ cache_stats = pre.cache_stats

\* get_stats after a large value was stored and read once: the identifier
\* is counted in each of the three tiers.
C33_Witness ==
    /\ last.op = "get_stats"
    /\ pre.last.op = "get" /\ pre.last.ret # None
    /\ last.ret[1].memory_entries = 1
    /\ last.ret[1].database_entries = 1
    /\ last.ret[1].file_entries = 1

\* A new CacheManager starts with an empty memory_cache and zeroed
\* counters and finds the rows and the files of the previous one.
RestartKeepsDurableTiers ==
    (last.op = "__init__" /\ calls > 0) =>
        /\ memory_cache = <<>>
        /\ cache_stats = [hits |-> 0, misses |-> 0, evictions |-> 0]
        /\ cache_entries = pre.cache_entries
        /\ file_cache_dir = pre.file_cache_dir

\* The values the rows and the file pairs hold for the identifier of the
\* last call with an expiry after its clock reading.
DurableValues ==
    { r.value : r \in { q \in pre.cache_entries : q.key = LastKey /\ last.t < q.expires_at } }
    \cup
    { read(pre.file_cache_dir, LastKey, ".cache").pickle :
        m \in { n \in glob_meta(pre.file_cache_dir) :
                  /\ n.stem = LastKey /\ last.t < n.content.expires_at
                  /\ exists(pre.file_cache_dir, LastKey, ".cache") } }

\* C34: a restart keeps the rows and the files with their expiries and
\* empties memory_cache and the counters, and the first get after it
\* returns every value that cache_entries or the file directory holds for
\* its identifier with an expiry that has not passed.
C34_DurableAcrossRestart ==
    /\ RestartKeepsDurableTiers
    /\ (last.op = "get" /\ pre.last.op = "__init__") =>
           \A v \in DurableValues : last.ret = Some(v)

\* The (value, expires_at) copies the three tiers hold for an identifier
\* with an expiry after the clock.
LiveCopies(key) ==
    { [value |-> memory_cache[i].value, expires_at |-> memory_cache[i].expires_at] :
        i \in { j \in DOMAIN memory_cache :
                  memory_cache[j].key = key /\ memory_cache[j].expires_at > now } }
    \cup
    { [value |-> r.value, expires_at |-> r.expires_at] :
        r \in { q \in cache_entries : q.key = key /\ q.expires_at > now } }
    \cup
    { [value |-> read(file_cache_dir, key, ".cache").pickle,
       expires_at |-> m.content.expires_at] :
        m \in { n \in glob_meta(file_cache_dir) :
                  /\ n.stem = key /\ n.content.expires_at > now
                  /\ exists(file_cache_dir, key, ".cache") } }

\* C35: in every state the unexpired copies the tiers hold of one
\* identifier carry one value and one expires_at.
C35_TiersCoherent ==
    \A t \in Tuples : Cardinality(LiveCopies(KeyOf(t))) <= 1

\* C36: a get or a set adds to the evictions counter exactly the number of
\* identifiers the eviction loop dropped from memory_cache (the expired
\* entry a get deletes is not one of them), and invalidate and
\* cleanup_expired leave hits, misses and evictions as they were whatever
\* they remove.
C36_EvictionsCountCapacityOnly ==
    /\ (last.op \in {"get", "set"}) =>
           cache_stats.evictions = pre.cache_stats.evictions + Cardinality(Evicted)
    /\ (last.op \in {"invalidate", "cleanup_expired"}) => cache_stats = pre.cache_stats

\* After one capacity eviction, cleanup_expired removed an expired entry
\* from memory_cache and the counter still reads 1.
C36_Witness ==
    /\ last.op = "cleanup_expired"
    /\ Len(memory_cache) < Len(pre.memory_cache)
    /\ cache_stats.evictions = 1

\* C39: max_memory_entries is max_memory_mb * 1024 for the budget the
\* cache was constructed with, negative and zero included; no call raises;
\* and memory_cache holds at most max(max_memory_entries, 0) entries.
C39_BudgetToCapacity ==
    /\ \E max_memory_mb \in Budgets : max_memory_entries = max_memory_mb * 1024
    /\ ~last.raised
    /\ Len(memory_cache) <= (IF max_memory_entries > 0 THEN max_memory_entries ELSE 0)

\* The stems of the readable metadata files the last sweep had to remove:
\* the expired ones for cleanup_expired, those of the namespace for
\* invalidate.
SweepTargets ==
    { m.stem : m \in { n \in glob_meta(pre.file_cache_dir) :
        /\ n.stem \notin last.unreadable
        /\ IF last.op = "cleanup_expired"
           THEN last.t > n.content.expires_at
           ELSE n.content.category = last.namespace } }

\* C38: a cleanup_expired or a namespace invalidate that meets metadata
\* files it cannot read does not raise, leaves the files of those
\* identifiers where they are, and removes both files of every other
\* identifier that is expired (cleanup) or of the namespace (invalidate).
C38_SweepSkipsBadEntry ==
    (last.op \in {"cleanup_expired", "invalidate"} /\ last.fault = "meta_read") =>
        /\ ~last.raised
        /\ \A f \in pre.file_cache_dir : f.stem \in last.unreadable => f \in file_cache_dir
        /\ \A f \in file_cache_dir : f.stem \notin SweepTargets

\* cleanup_expired skipped one unreadable metadata file and removed the
\* expired pair of another identifier.
C38_Witness ==
    /\ last.op = "cleanup_expired" /\ last.fault = "meta_read"
    /\ Cardinality(last.unreadable) = 1
    /\ SweepTargets # {}
    /\ meta_stems(file_cache_dir) = last.unreadable

\* C37: under fair scheduling a thread that has entered a method gets the
\* lock, and a thread inside a method, waiting or in the body, reaches its
\* end, by return or by an exception, without the lock; the lock, once
\* taken, becomes free again.
C37_CallsTerminate ==
    /\ \A th \in Threads : (threads[th].pc = "acquire") ~> (_lock = Some(th))
    /\ \A th \in Threads :
          (threads[th].pc \notin {"idle", "done"})
              ~> (threads[th].pc = "done" /\ _lock # Some(th))
    /\ (_lock # None) ~> (_lock = None)

\* A thread whose invalidate raised in the body is about to leave the with
\* block while the other thread waits for the lock.
C37_Witness ==
    \E th \in Threads, other \in Threads :
        /\ threads[th].pc = "release" /\ threads[th].raised /\ _lock = Some(th)
        /\ threads[other].pc = "acquire"

====
